---- MODULE Spec2Model ----
(***************************************************************************)
(* Verification model of the Garage object store core:                     *)
(*   - the Object / ObjectVersionState CRDTs (model/s3/object_table.rs)    *)
(*   - the block manager, its reference counter and resync worker          *)
(*     (block/manager.rs)                                                  *)
(*   - the server-side copy write pipeline (api/s3/copy.rs)                *)
(*   - the online repair workers (garage/repair/online.rs)                 *)
(* Each part has its own variables, initial predicate and specification;   *)
(* the variables of the other parts stay at their idle value.              *)
(***************************************************************************)
EXTENDS Integers, Sequences, FiniteSets, TLC

(***************************************************************************)
(* Bounds                                                                  *)
(***************************************************************************)
MaxUuid == 4
MaxMeta == 2
MaxHeaders == 2
MaxVersions == 2
MaxObjLen == 3
NumReplicas == 2

Uuids == 1..MaxUuid
Metas == 1..MaxMeta
HeaderSets == 1..MaxHeaders

(***************************************************************************)
(* ObjectVersionData, ObjectVersionState, ObjectVersion                    *)
(***************************************************************************)
DeleteMarker == [kind |-> "DeleteMarker", meta |-> 0, body |-> 0]
Inline(meta, bytes) == [kind |-> "Inline", meta |-> meta, body |-> bytes]
FirstBlock(meta, hash) == [kind |-> "FirstBlock", meta |-> meta, body |-> hash]

ObjectVersionData ==
  {DeleteMarker} \cup {Inline(m, 1) : m \in Metas} \cup {FirstBlock(m, 1) : m \in Metas}

\* derive(PartialOrd, Ord): variants in declaration order, then fields in order
DataVariantIndex(d) ==
  CASE d.kind = "DeleteMarker" -> 0
    [] d.kind = "Inline" -> 1
    [] d.kind = "FirstBlock" -> 2

DataGreater(a, b) ==
  \/ DataVariantIndex(a) > DataVariantIndex(b)
  \/ /\ DataVariantIndex(a) = DataVariantIndex(b)
     /\ \/ a.meta > b.meta
        \/ a.meta = b.meta /\ a.body > b.body

\* AutoCrdt: keep the greater of the two values
DataMerge(self, other) == IF DataGreater(other, self) THEN other ELSE self

NoData == [kind |-> "None", meta |-> 0, body |-> 0]

Uploading(multipart, headers) ==
  [tag |-> "Uploading", multipart |-> multipart, headers |-> headers, data |-> NoData]
Complete(data) ==
  [tag |-> "Complete", multipart |-> FALSE, headers |-> 0, data |-> data]
Aborted ==
  [tag |-> "Aborted", multipart |-> FALSE, headers |-> 0, data |-> NoData]

ObjectVersionState ==
  {Uploading(mp, h) : mp \in BOOLEAN, h \in HeaderSets}
    \cup {Complete(d) : d \in ObjectVersionData}
    \cup {Aborted}

\* impl Crdt for ObjectVersionState: a variant of merge that lets an Uploading
\* `other` overwrite a Complete `self`
StateMergeUploadingWins(self, other) ==
  CASE other.tag = "Aborted" -> Aborted
    [] other.tag = "Complete" ->
         (CASE self.tag = "Aborted" -> self
            [] self.tag = "Complete" -> Complete(DataMerge(self.data, other.data))
            [] self.tag = "Uploading" -> Complete(other.data))
    [] other.tag = "Uploading" ->
         (IF self.tag = "Complete" THEN other ELSE self)

\* impl Crdt for ObjectVersionState
StateMerge(self, other) ==
  CASE other.tag = "Aborted" -> Aborted
    [] other.tag = "Complete" ->
         (CASE self.tag = "Aborted" -> self
            [] self.tag = "Complete" -> Complete(DataMerge(self.data, other.data))
            [] self.tag = "Uploading" -> Complete(other.data))
    [] other.tag = "Uploading" -> self

ObjectVersion(uuid, timestamp, state) ==
  [uuid |-> uuid, timestamp |-> timestamp, state |-> state]

cmp_key(v) == <<v.timestamp, v.uuid>>

\* Ord on (u64, Uuid): "Less", "Equal" or "Greater"
KeyCmp(k1, k2) ==
  IF k1[1] < k2[1] \/ (k1[1] = k2[1] /\ k1[2] < k2[2]) THEN "Less"
  ELSE IF k1 = k2 THEN "Equal"
  ELSE "Greater"

is_complete(v) == v.state.tag = "Complete"

(***************************************************************************)
(* Object: versions list, Object::new, add_version, merge                  *)
(***************************************************************************)
\* versions.binary_search_by(|v| v.cmp_key().cmp(&key)) on a 0-based slice:
\* [found |-> TRUE, idx |-> i] for Ok(i), [found |-> FALSE, idx |-> i] for Err(i)
RECURSIVE BinarySearchFrom(_, _, _, _)
BinarySearchFrom(versions, key, left, right) ==
  IF left >= right THEN [found |-> FALSE, idx |-> left]
  ELSE LET mid == left + ((right - left) \div 2)
           c == KeyCmp(cmp_key(versions[mid + 1]), key)
       IN CASE c = "Less" -> BinarySearchFrom(versions, key, mid + 1, right)
            [] c = "Greater" -> BinarySearchFrom(versions, key, left, mid)
            [] c = "Equal" -> [found |-> TRUE, idx |-> mid]

BinarySearch(versions, key) == BinarySearchFrom(versions, key, 0, Len(versions))

\* Vec::insert(i, v) with a 0-based index
VecInsert(versions, i, v) ==
  SubSeq(versions, 1, i) \o <<v>> \o SubSeq(versions, i + 1, Len(versions))

\* add_version that pushes the new version at the end of the list
AddVersionPush(versions, new) ==
  LET r == BinarySearch(versions, cmp_key(new))
  IN IF r.found THEN [ok |-> FALSE, versions |-> versions]
     ELSE [ok |-> TRUE, versions |-> Append(versions, new)]

\* Object::add_version: Ok(()) and the new list, or Err(()) and the list unchanged
AddVersion(versions, new) ==
  LET r == BinarySearch(versions, cmp_key(new))
  IN IF r.found THEN [ok |-> FALSE, versions |-> versions]
     ELSE [ok |-> TRUE, versions |-> VecInsert(versions, r.idx, new)]

\* Object::new: add_version for each given version, starting from vec![]
RECURSIVE ObjectNewFrom(_, _, _)
ObjectNewFrom(acc, versions, j) ==
  IF j > Len(versions) THEN acc
  ELSE ObjectNewFrom(AddVersion(acc, versions[j]).versions, versions, j + 1)

ObjectNew(versions) == ObjectNewFrom(<<>>, versions, 1)

\* the .expect() of Object::new: no version is given twice
NewAccepts(versions) ==
  \A i, j \in 1..Len(versions) : i # j => cmp_key(versions[i]) # cmp_key(versions[j])

\* first loop of Object::merge: merge the versions of `other` into `self`
RECURSIVE MergeVersionsFrom(_, _, _)
MergeVersionsFrom(self, other, j) ==
  IF j > Len(other) THEN self
  ELSE LET other_v == other[j]
           r == BinarySearch(self, cmp_key(other_v))
           next == IF r.found
                   THEN [self EXCEPT ![r.idx + 1].state = StateMerge(@, other_v.state)]
                   ELSE VecInsert(self, r.idx, other_v)
       IN MergeVersionsFrom(next, other, j + 1)

MergeVersions(self, other) == MergeVersionsFrom(self, other, 1)

\* 0-based index of the last version which is_complete(), -1 for None
LastComplete(versions) ==
  LET cs == {i \in 1..Len(versions) : is_complete(versions[i])}
  IN IF cs = {} THEN -1 ELSE (CHOOSE i \in cs : \A j \in cs : j <= i) - 1

\* a variant that finds the first complete version (no .rev())
FirstComplete(versions) ==
  LET cs == {i \in 1..Len(versions) : is_complete(versions[i])}
  IN IF cs = {} THEN -1 ELSE (CHOOSE i \in cs : \A j \in cs : j >= i) - 1

\* a variant of merge that drops nothing
DropObsoleteKeepAll(versions) == versions

DropObsoleteFirst(versions) ==
  LET last_vi == FirstComplete(versions)
  IN IF last_vi >= 0 THEN SubSeq(versions, last_vi + 1, Len(versions)) ELSE versions

\* second half of Object::merge: self.versions.drain(last_vi..)
DropObsolete(versions) ==
  LET last_vi == LastComplete(versions)
  IN IF last_vi >= 0 THEN SubSeq(versions, last_vi + 1, Len(versions)) ELSE versions

\* impl Crdt for Object
ObjectMerge(self, other) == DropObsolete(MergeVersions(self, other))

(***************************************************************************)
(* State                                                                   *)
(***************************************************************************)
VARIABLES
  st_self, st_other, st_before,            \* one ObjectVersionState being merged into
  object, obj_op,                          \* one Object row and the last call on it
  mg_self, mg_other, mg_result, mg_done,   \* one call of Object::merge
  m_a, m_b, m_c, m_out,                    \* three Object rows and their merges
  w_store, w_net, w_pc, w_uuid, w_acks,    \* two writers of one object key
  w_first,                                 \* whose Complete row replica 1 got first
  now,                                     \* now_msec()
  b_rc, b_file, b_queue, b_errors,         \* local block manager, one block hash
  b_pc, b_entry, b_iter_now,               \* position of the resync worker
  b_replies, b_acks,                       \* answers to NeedBlockQuery and PutBlock
  p_rc, p_file,                            \* the other nodes of write_nodes(hash)
  b_zero_at, b_del,                        \* last decrement to zero, last deletion
  b_ops,                                   \* number of requests and failures so far
  r_refs, r_version,                       \* BlockRef rows of the block, Version rows
  c_object, c_version, c_refs, c_rc,       \* rows and counts seen by handle_copy
  c_vq, c_rq,                              \* queued Version and BlockRef deletions
  c_pc, c_join, c_ids, c_log,              \* position of handle_copy, its writes
  c_seen,                                  \* Version rows the repair pass has visited
  q_live, q_resp, q_stored,                \* nodes of write_nodes during rpc_put_block
  q_result, q_t0, q_done_at, q_now,        \* result of rpc_put_block, times
  d_dir, d_rc, d_queue, d_now,             \* data directory, count, resync queue, clock
  d_read, d_last, d_reply, d_ops,          \* pending read, last handler and its reply
  e_now, e_queue, e_errors,                \* clock, resync queue and ErrorCounter of a hash
  e_pc, e_entry, e_iter_now,               \* position of resync_iter, its entry, its now
  e_last, e_fails, e_adds,                 \* last failure, failures and enqueues so far
  e_req,                                   \* keys requested since resync_block last started
  l_pc, l_now, l_queue, l_errors,          \* position of resync_loop, clock, queue, errors
  l_entry, l_iter_now, l_rc, l_file,       \* entry of the iteration, count, block file
  l_reachable, l_must_exit, l_changed,     \* nodes holding the block, watch channel
  l_notified, l_fails, l_ops,              \* wake-up of resync_notify, failures, events
  y_ring, y_lock, y_pc, y_adv, y_layout,   \* ring, update_ring mutex, callers of the handler
  y_result, y_sent, y_broadcast, y_saved,  \* results, layouts sent, broadcast, persisted
  h_headers, h_date, h_etag,               \* copy-source headers, source date and etag
  h_result, h_written,                     \* result of check(), rows of the copy written
  u_source, u_range, u_block_size,         \* source blocks, source range, config.block_size
  u_pc, u_to_copy, u_stream, u_next,       \* position of UploadPartCopy, its streams
  u_offset, u_emitted, u_version, u_refs,  \* current_offset, buffers returned, rows inserted
  u_uploaded, u_size,                      \* blocks sent by rpc_put_block, recorded part size
  t_in, t_pc, t_guard, t_uuid, t_mpu, t_version, t_spawned, t_exit,  \* UploadPart: request, position, cleanup guard, rows, spawned tasks
  x_exists, x_mpu, x_uploads, x_pc, x_list, x_parts, x_fetched, x_result, x_rows,  \* CompleteMultipartUpload: upload, stored parts, request, position, rows written
  a_object, a_upload, a_pc, a_read, a_before, a_tx, a_vq, a_mq, a_result,  \* AbortMultipartUpload: stored Object, upload id, position, hook output, queues
  n_table, n_first, n_object, n_pos, n_counter, n_state, n_log, n_errors,  \* repair_versions: Version table, Object row, worker position, visits
  f_table, f_first, f_version, f_pos, f_counter, f_state, f_log, f_errors,  \* repair_block_refs: BlockRef table, Version rows, worker position, visits
  k_table, k_net, k_req, k_now, k_ops,  \* the key table of one access key id
  i_key_id, i_secret_key, i_pc, i_result,  \* one call of Key::import
  g_old, g_new, g_rows, g_pc,  \* one update of a stored Object row
  z_object, z_mpu, z_upload, z_done, z_req, z_last, z_steps   \* the requests on one multipart upload id

stVars == <<st_self, st_other, st_before>>
objVars == <<object, obj_op>>
mgVars == <<mg_self, mg_other, mg_result, mg_done>>
mVars == <<m_a, m_b, m_c, m_out>>
wVars == <<w_store, w_net, w_pc, w_uuid, w_acks, w_first>>
bVars == <<now, b_rc, b_file, b_queue, b_errors, b_pc, b_entry, b_iter_now,
           b_replies, b_acks, p_rc, p_file, b_zero_at, b_del, b_ops>>
rVars == <<r_refs, r_version>>
cVars == <<c_object, c_version, c_refs, c_rc, c_vq, c_rq, c_pc, c_join, c_ids, c_log,
           c_seen>>
qVars == <<q_live, q_resp, q_stored, q_result, q_t0, q_done_at, q_now>>
dVars == <<d_dir, d_rc, d_queue, d_now, d_read, d_last, d_reply, d_ops>>
eVars == <<e_now, e_queue, e_errors, e_pc, e_entry, e_iter_now, e_last, e_fails, e_adds, e_req>>
lVars == <<l_pc, l_now, l_queue, l_errors, l_entry, l_iter_now, l_rc, l_file,
           l_reachable, l_must_exit, l_changed, l_notified, l_fails, l_ops>>
yVars == <<y_ring, y_lock, y_pc, y_adv, y_layout, y_result, y_sent, y_broadcast, y_saved>>
hVars == <<h_headers, h_date, h_etag, h_result, h_written>>
uVars == <<u_source, u_range, u_block_size, u_pc, u_to_copy, u_stream, u_next, u_offset,
           u_emitted, u_version, u_refs, u_uploaded, u_size>>
tVars == <<t_in, t_pc, t_guard, t_uuid, t_mpu, t_version, t_spawned, t_exit>>
xVars == <<x_exists, x_mpu, x_uploads, x_pc, x_list, x_parts, x_fetched, x_result, x_rows>>
aVars == <<a_object, a_upload, a_pc, a_read, a_before, a_tx, a_vq, a_mq, a_result>>
nVars == <<n_table, n_first, n_object, n_pos, n_counter, n_state, n_log, n_errors>>
fVars == <<f_table, f_first, f_version, f_pos, f_counter, f_state, f_log, f_errors>>
kVars == <<k_table, k_net, k_req, k_now, k_ops>>
iVars == <<i_key_id, i_secret_key, i_pc, i_result>>
gVars == <<g_old, g_new, g_rows, g_pc>>
zVars == <<z_object, z_mpu, z_upload, z_done, z_req, z_last, z_steps>>
vars == <<stVars, objVars, mgVars, mVars, wVars, bVars, rVars, cVars, qVars, dVars, eVars, lVars, yVars, hVars, uVars, tVars, xVars, aVars, nVars, fVars, kVars, iVars, gVars, zVars>>

NoState == [tag |-> "None", multipart |-> FALSE, headers |-> 0, data |-> NoData]

StIdle == st_self = NoState /\ st_other = NoState /\ st_before = NoState
ObjIdle == object = <<>> /\ obj_op = "idle"
MgIdle == mg_self = <<>> /\ mg_other = <<>> /\ mg_result = <<>> /\ mg_done = FALSE
MIdle == m_a = <<>> /\ m_b = <<>> /\ m_c = <<>> /\ m_out = <<>>
WIdle ==
  /\ w_store = <<>> /\ w_net = {} /\ w_pc = <<>>
  /\ w_uuid = <<>> /\ w_acks = <<>> /\ w_first = 0

BIdle ==
  /\ now = 0 /\ b_rc = <<>> /\ b_file = FALSE /\ b_queue = {} /\ b_errors = <<>>
  /\ b_pc = "off" /\ b_entry = 0 /\ b_iter_now = 0 /\ b_replies = <<>> /\ b_acks = <<>>
  /\ p_rc = <<>> /\ p_file = <<>> /\ b_zero_at = 0 /\ b_del = <<>> /\ b_ops = 0

RIdle == r_refs = <<>> /\ r_version = <<>>

CIdle ==
  /\ c_object = <<>> /\ c_version = <<>> /\ c_refs = <<>> /\ c_rc = <<>>
  /\ c_vq = {} /\ c_rq = {} /\ c_pc = -1 /\ c_join = <<>> /\ c_ids = <<>> /\ c_log = <<>>
  /\ c_seen = {}

UIdle ==
  /\ u_source = <<>> /\ u_range = <<>> /\ u_block_size = 0 /\ u_pc = "off"
  /\ u_to_copy = <<>> /\ u_stream = <<>> /\ u_next = <<>> /\ u_offset = 0
  /\ u_emitted = <<>> /\ u_version = {} /\ u_refs = {} /\ u_uploaded = {} /\ u_size = -1

TIdle ==
  /\ t_in = <<>> /\ t_pc = "off" /\ t_guard = <<>> /\ t_uuid = 0 /\ t_mpu = {} /\ t_version = {} /\ t_spawned = <<>> /\ t_exit = "off"

XIdle ==
  /\ x_exists = FALSE /\ x_mpu = {} /\ x_uploads = 0 /\ x_pc = "off" /\ x_list = <<>> /\ x_parts = <<>> /\ x_fetched = <<>> /\ x_result = "off" /\ x_rows = <<>>

AIdle ==
  /\ a_object = <<>> /\ a_upload = 0 /\ a_pc = "off" /\ a_read = <<>> /\ a_before = <<>> /\ a_tx = <<>> /\ a_vq = <<>> /\ a_mq = <<>> /\ a_result = "off"

NIdle ==
  /\ n_table = <<>> /\ n_first = <<>> /\ n_object = <<>> /\ n_pos = 0 /\ n_counter = 0 /\ n_state = "off" /\ n_log = <<>> /\ n_errors = 0

FIdle ==
  /\ f_table = <<>> /\ f_first = <<>> /\ f_version = <<>> /\ f_pos = 0 /\ f_counter = 0 /\ f_state = "off" /\ f_log = <<>> /\ f_errors = 0

KIdle ==
  k_table = <<>> /\ k_net = {} /\ k_req = <<>> /\ k_now = 0 /\ k_ops = 0

IIdle ==
  i_key_id = <<>> /\ i_secret_key = <<>> /\ i_pc = "off" /\ i_result = <<>>

GIdle ==
  g_old = <<>> /\ g_new = <<>> /\ g_rows = <<>> /\ g_pc = "off"

ZIdle ==
  z_object = <<>> /\ z_mpu = FALSE /\ z_upload = 0 /\ z_done = FALSE /\ z_req = <<>> /\ z_last = <<>> /\ z_steps = 0

HIdle ==
  /\ h_headers = <<>> /\ h_date = 0 /\ h_etag = "" /\ h_result = "off" /\ h_written = FALSE

YIdle ==
  /\ y_ring = <<>> /\ y_lock = "off" /\ y_pc = <<>> /\ y_adv = <<>> /\ y_layout = <<>>
  /\ y_result = <<>> /\ y_sent = <<>> /\ y_broadcast = {} /\ y_saved = {}

LIdle ==
  /\ l_pc = "off" /\ l_now = 0 /\ l_queue = {} /\ l_errors = <<>> /\ l_entry = 0
  /\ l_iter_now = 0 /\ l_rc = <<>> /\ l_file = FALSE /\ l_reachable = FALSE
  /\ l_must_exit = FALSE /\ l_changed = FALSE /\ l_notified = FALSE
  /\ l_fails = 0 /\ l_ops = 0

EIdle ==
  /\ e_now = 0 /\ e_queue = {} /\ e_errors = <<>> /\ e_pc = "off" /\ e_entry = 0
  /\ e_iter_now = 0 /\ e_last = <<>> /\ e_fails = 0 /\ e_adds = 0 /\ e_req = {}

DIdle ==
  /\ d_dir = <<>> /\ d_rc = <<>> /\ d_queue = {} /\ d_now = 0
  /\ d_read = "off" /\ d_last = "off" /\ d_reply = "off" /\ d_ops = 0

QIdle ==
  /\ q_live = <<>> /\ q_resp = <<>> /\ q_stored = <<>> /\ q_result = "off"
  /\ q_t0 = 0 /\ q_done_at = 0 /\ q_now = 0

(***************************************************************************)
(* ObjectVersionState::merge applied to one version's state                *)
(***************************************************************************)
StInit ==
  /\ st_self \in ObjectVersionState
  /\ st_other = NoState
  /\ st_before = NoState
  /\ ObjIdle /\ MgIdle /\ MIdle /\ WIdle /\ BIdle /\ RIdle /\ CIdle /\ QIdle /\ DIdle /\ EIdle /\ LIdle /\ YIdle /\ HIdle /\ UIdle /\ TIdle /\ XIdle /\ AIdle /\ NIdle /\ FIdle /\ KIdle /\ IIdle /\ GIdle /\ ZIdle

\* self.versions[i].state.merge(&other_v.state)
MergeState(other) ==
  /\ st_self' = StateMerge(st_self, other)
  /\ st_other' = other
  /\ st_before' = st_self
  /\ UNCHANGED <<objVars, mgVars, mVars, wVars, bVars, rVars, cVars, qVars, dVars, eVars, lVars, yVars, hVars, uVars, tVars, xVars, aVars, nVars, fVars, kVars, iVars, gVars, zVars>>

StNext == \E other \in ObjectVersionState : MergeState(other)

SpecState == StInit /\ [][StNext]_vars

(***************************************************************************)
(* One Object row under Object::new, add_version and merge                 *)
(***************************************************************************)
\* the states a writer gives to a version of its own
RowStates == {Uploading(FALSE, 1), Complete(FirstBlock(1, 1)), Aborted}

\* a version gets its uuid and its timestamp once, from its writer (gen_uuid(),
\* now_msec()); timestamps repeat and do not follow the order of the uuids
TimestampOf(u) == (u % 2) + 1

Versions ==
  {ObjectVersion(u, TimestampOf(u), s) : u \in Uuids, s \in RowStates}

\* version lists handed to Object::new
NewInputs ==
  UNION {{vs \in [1..n -> Versions] : NewAccepts(vs)} : n \in 0..MaxVersions}

\* rows received from other nodes
PeerRows == {ObjectNew(vs) : vs \in NewInputs}

\* rows inserted by the API handlers: Object::new(.., vec![version])
UpdateRows == {ObjectNew(<<v>>) : v \in Versions}

\* Object::new
ObjInit ==
  /\ object \in PeerRows
  /\ obj_op = "new"
  /\ StIdle /\ MgIdle /\ MIdle /\ WIdle /\ BIdle /\ RIdle /\ CIdle /\ QIdle /\ DIdle /\ EIdle /\ LIdle /\ YIdle /\ HIdle /\ UIdle /\ TIdle /\ XIdle /\ AIdle /\ NIdle /\ FIdle /\ KIdle /\ IIdle /\ GIdle /\ ZIdle

ObjAddVersion(new) ==
  /\ Len(object) < MaxObjLen
  /\ LET r == AddVersion(object, new)
     IN /\ object' = r.versions
        /\ obj_op' = IF r.ok THEN "add_version" ELSE "add_version_err"
  /\ UNCHANGED <<stVars, mgVars, mVars, wVars, bVars, rVars, cVars, qVars, dVars, eVars, lVars, yVars, hVars, uVars, tVars, xVars, aVars, nVars, fVars, kVars, iVars, gVars, zVars>>

ObjMerge(other) ==
  LET merged == ObjectMerge(object, other)
  IN /\ Len(merged) <= MaxObjLen
     /\ object' = merged
     /\ obj_op' = "merge"
     /\ UNCHANGED <<stVars, mgVars, mVars, wVars, bVars, rVars, cVars, qVars, dVars, eVars, lVars, yVars, hVars, uVars, tVars, xVars, aVars, nVars, fVars, kVars, iVars, gVars, zVars>>

ObjNext ==
  \/ \E new \in Versions : ObjAddVersion(new)
  \/ \E other \in PeerRows : ObjMerge(other)

SpecObject == ObjInit /\ [][ObjNext]_vars

(***************************************************************************)
(* One call self.merge(&other) of Object::merge                            *)
(***************************************************************************)
MgInit ==
  /\ mg_self \in PeerRows
  /\ mg_other \in PeerRows
  /\ mg_result = <<>>
  /\ mg_done = FALSE
  /\ StIdle /\ ObjIdle /\ MIdle /\ WIdle /\ BIdle /\ RIdle /\ CIdle /\ QIdle /\ DIdle /\ EIdle /\ LIdle /\ YIdle /\ HIdle /\ UIdle /\ TIdle /\ XIdle /\ AIdle /\ NIdle /\ FIdle /\ KIdle /\ IIdle /\ GIdle /\ ZIdle

MgMerge ==
  /\ ~mg_done
  /\ mg_result' = ObjectMerge(mg_self, mg_other)
  /\ mg_done' = TRUE
  /\ UNCHANGED <<mg_self, mg_other, stVars, objVars, mVars, wVars, bVars, rVars, cVars, qVars, dVars, eVars, lVars, yVars, hVars, uVars, tVars, xVars, aVars, nVars, fVars, kVars, iVars, gVars, zVars>>

MgNext == MgMerge

SpecObjectMerge == MgInit /\ [][MgNext]_vars

(***************************************************************************)
(* Three Object rows merged in different orders and groupings              *)
(***************************************************************************)
MInit ==
  /\ m_a \in PeerRows
  /\ m_b \in UpdateRows
  /\ m_c \in UpdateRows
  /\ m_out = <<>>
  /\ StIdle /\ ObjIdle /\ MgIdle /\ WIdle /\ BIdle /\ RIdle /\ CIdle /\ QIdle /\ DIdle /\ EIdle /\ LIdle /\ YIdle /\ HIdle /\ UIdle /\ TIdle /\ XIdle /\ AIdle /\ NIdle /\ FIdle /\ KIdle /\ IIdle /\ GIdle /\ ZIdle

\* m_out collects, one merge call at a time:
\*   1: a.merge(b)   2: (a.merge(b)).merge(c)   3: b.merge(c)
\*   4: a.merge(b.merge(c))   5: b.merge(a)   6: (a.merge(b)).merge(b)
MergeNext ==
  /\ Len(m_out) < 6
  /\ LET n == Len(m_out) + 1
         r == CASE n = 1 -> ObjectMerge(m_a, m_b)
                [] n = 2 -> ObjectMerge(m_out[1], m_c)
                [] n = 3 -> ObjectMerge(m_b, m_c)
                [] n = 4 -> ObjectMerge(m_a, m_out[3])
                [] n = 5 -> ObjectMerge(m_b, m_a)
                [] n = 6 -> ObjectMerge(m_out[1], m_b)
     IN m_out' = Append(m_out, r)
  /\ UNCHANGED <<m_a, m_b, m_c, stVars, objVars, mgVars, wVars, bVars, rVars, cVars, qVars, dVars, eVars, lVars, yVars, hVars, uVars, tVars, xVars, aVars, nVars, fVars, kVars, iVars, gVars, zVars>>

MNext == MergeNext

SpecMerge == MInit /\ [][MNext]_vars

(***************************************************************************)
(* Two writers of the same object key, NumReplicas replicas of the row     *)
(***************************************************************************)
Replicas == 1..NumReplicas
Writers == {1, 2}

\* ReplicationMode::write_quorum
WriteQuorum == (NumReplicas \div 2) + 1

None == [some |-> FALSE, versions |-> <<>>]
Some(versions) == [some |-> TRUE, versions |-> versions]

\* table update of a stored entry: merge into the old entry, or store as given
TableUpdate(old, update) ==
  IF old.some THEN Some(ObjectMerge(old.versions, update)) ELSE Some(update)

GreaterKey(v1, v2) == KeyCmp(cmp_key(v1), cmp_key(v2)) = "Greater"

WVersion(w, state) == ObjectVersion(w_uuid[w], TimestampOf(w_uuid[w]), state)
WUploading(w) == WVersion(w, Uploading(FALSE, 1))
WComplete(w) == WVersion(w, Complete(FirstBlock(1, 1)))

WInit ==
  /\ \E u1, u2 \in Uuids :
       /\ u1 < u2
       /\ w_uuid = <<u1, u2>>
  /\ w_store = [r \in Replicas |-> None]
  /\ w_net = {}
  /\ w_pc = [w \in Writers |-> "start"]
  /\ w_acks = [w \in Writers |-> {}]
  /\ w_first = 0
  /\ StIdle /\ ObjIdle /\ MgIdle /\ MIdle /\ BIdle /\ RIdle /\ CIdle /\ QIdle /\ DIdle /\ EIdle /\ LIdle /\ YIdle /\ HIdle /\ UIdle /\ TIdle /\ XIdle /\ AIdle /\ NIdle /\ FIdle /\ KIdle /\ IIdle /\ GIdle /\ ZIdle

\* object_table.insert(&row): Update(row) goes to every replica of the row
SendInsert(w, version) ==
  /\ w_net' = w_net \cup {[to |-> r, from |-> w, row |-> ObjectNew(<<version>>)] : r \in Replicas}
  /\ w_acks' = [w_acks EXCEPT ![w] = {}]

\* the writer inserts the Uploading row of its version
WriterUploading(w) ==
  /\ w_pc[w] = "start"
  /\ SendInsert(w, WUploading(w))
  /\ w_pc' = [w_pc EXCEPT ![w] = "uploading"]
  /\ UNCHANGED <<w_store, w_uuid, w_first, stVars, objVars, mgVars, mVars, bVars, rVars, cVars, qVars, dVars, eVars, lVars, yVars, hVars, uVars, tVars, xVars, aVars, nVars, fVars, kVars, iVars, gVars, zVars>>

\* once a write quorum has the Uploading row, the writer inserts the Complete row
WriterComplete(w) ==
  /\ w_pc[w] = "uploading"
  /\ Cardinality(w_acks[w]) >= WriteQuorum
  /\ SendInsert(w, WComplete(w))
  /\ w_pc' = [w_pc EXCEPT ![w] = "complete"]
  /\ UNCHANGED <<w_store, w_uuid, w_first, stVars, objVars, mgVars, mVars, bVars, rVars, cVars, qVars, dVars, eVars, lVars, yVars, hVars, uVars, tVars, xVars, aVars, nVars, fVars, kVars, iVars, gVars, zVars>>

\* the last insert returns Ok once a write quorum has acknowledged it
WriterDone(w) ==
  /\ w_pc[w] = "complete"
  /\ Cardinality(w_acks[w]) >= WriteQuorum
  /\ w_pc' = [w_pc EXCEPT ![w] = "done"]
  /\ UNCHANGED <<w_store, w_net, w_uuid, w_acks, w_first, stVars, objVars, mgVars, mVars, bVars, rVars, cVars, qVars, dVars, eVars, lVars, yVars, hVars, uVars, tVars, xVars, aVars, nVars, fVars, kVars, iVars, gVars, zVars>>

\* a replica applies an Update and acknowledges it
Deliver(m) ==
  /\ m \in w_net
  /\ w_net' = w_net \ {m}
  /\ w_store' = [w_store EXCEPT ![m.to] = TableUpdate(@, m.row)]
  /\ w_acks' = [w_acks EXCEPT ![m.from] =
                  IF m.row = ObjectNew(<<WUploading(m.from)>>) /\ w_pc[m.from] # "uploading"
                  THEN @ ELSE @ \cup {m.to}]
  /\ w_first' = IF w_first = 0 /\ m.to = 1 /\ is_complete(m.row[1])
                THEN m.from ELSE w_first
  /\ UNCHANGED <<w_pc, w_uuid, stVars, objVars, mgVars, mVars, bVars, rVars, cVars, qVars, dVars, eVars, lVars, yVars, hVars, uVars, tVars, xVars, aVars, nVars, fVars, kVars, iVars, gVars, zVars>>

\* anti-entropy: replica `to` merges the row stored by replica `from`
Sync(from, to) ==
  /\ from # to
  /\ w_store[from].some
  /\ w_store' = [w_store EXCEPT ![to] = TableUpdate(@, w_store[from].versions)]
  /\ UNCHANGED <<w_net, w_pc, w_uuid, w_acks, w_first, stVars, objVars, mgVars, mVars, bVars, rVars, cVars, qVars, dVars, eVars, lVars, yVars, hVars, uVars, tVars, xVars, aVars, nVars, fVars, kVars, iVars, gVars, zVars>>

WNext ==
  \/ \E w \in Writers : WriterUploading(w)
  \/ \E w \in Writers : WriterComplete(w)
  \/ \E w \in Writers : WriterDone(w)
  \/ \E m \in w_net : Deliver(m)
  \/ \E from, to \in Replicas : Sync(from, to)

SpecWriters == WInit /\ [][WNext]_vars

(***************************************************************************)
(* Block manager: the reference count entry, the block file, the resync    *)
(* queue and the resync worker of one node for one block hash, and the     *)
(* other nodes of write_nodes(hash).  Times are in milliseconds.           *)
(***************************************************************************)
BLOCK_RW_TIMEOUT == 30000
RESYNC_RETRY_DELAY == 60000
BLOCK_GC_DELAY == 600000

NumPeers == 2
MaxOps == 3

Peers == 1..NumPeers

RcPresent(count) == [kind |-> "Present", count |-> count, at_time |-> 0]
RcDeletable(at_time) == [kind |-> "Deletable", count |-> 0, at_time |-> at_time]
RcAbsent == [kind |-> "Absent", count |-> 0, at_time |-> 0]

RcIncrement(rc) ==
  IF rc.kind = "Present" THEN RcPresent(rc.count + 1) ELSE RcPresent(1)

RcDecrement(rc, t) ==
  IF rc.kind = "Present"
  THEN IF rc.count > 1 THEN RcPresent(rc.count - 1)
                       ELSE RcDeletable(t + BLOCK_GC_DELAY)
  ELSE rc

is_zero(rc) == rc.kind \in {"Deletable", "Absent"}
is_nonzero(rc) == ~is_zero(rc)
is_deletable(rc, t) ==
  \/ rc.kind = "Absent"
  \/ rc.kind = "Deletable" /\ t > rc.at_time
is_needed(rc, t) == ~is_deletable(rc, t)

ClearDeletedBlockRc(rc, t) ==
  IF rc.kind = "Deletable" /\ t > rc.at_time THEN RcAbsent ELSE rc

NoErrors == [some |-> FALSE, errors |-> 0, last_try |-> 0]
ErrorCounterNew(t) == [some |-> TRUE, errors |-> 1, last_try |-> t]
add1(ec, t) == [some |-> TRUE, errors |-> ec.errors + 1, last_try |-> t]
Pow2(n) == IF n = 0 THEN 1 ELSE IF n = 1 THEN 2 ELSE IF n = 2 THEN 4
           ELSE IF n = 3 THEN 8 ELSE IF n = 4 THEN 16 ELSE IF n = 5 THEN 32
           ELSE IF n = 6 THEN 64 ELSE IF n = 7 THEN 128 ELSE IF n = 8 THEN 256
           ELSE IF n = 9 THEN 512 ELSE 1024
MinOf(a, b) == IF a < b THEN a ELSE b
delay_msec(ec) == RESYNC_RETRY_DELAY * Pow2(MinOf(ec.errors - 1, 10))
next_try_last(ec) == ec.last_try - 1
next_try(ec) == ec.last_try + delay_msec(ec)

SetMin(S) == CHOOSE x \in S : \A y \in S : x <= y

NoDeletion == [some |-> FALSE, at |-> 0, zero_at |-> 0, replies |-> <<>>,
               acks |-> <<>>, needing |-> {}]

\* need_block on another node of write_nodes(hash)
PeerNeedBlock(n) == p_rc[n] /\ ~p_file[n]

NoAnswers == [n \in Peers |-> "none"]
NeedNodes == {n \in Peers : b_replies[n] = "true"}

BInit ==
  /\ now = 0
  /\ b_rc = RcPresent(1)
  /\ b_file = TRUE
  /\ b_queue = {}
  /\ b_errors = NoErrors
  /\ b_pc = "idle" /\ b_entry = 0 /\ b_iter_now = 0
  /\ b_replies = NoAnswers /\ b_acks = NoAnswers
  /\ p_rc = [n \in Peers |-> TRUE]
  /\ p_file \in [Peers -> BOOLEAN]
  /\ b_zero_at = -1
  /\ b_del = NoDeletion
  /\ b_ops = 0
  /\ StIdle /\ ObjIdle /\ MgIdle /\ MIdle /\ WIdle /\ RIdle /\ CIdle /\ QIdle /\ DIdle /\ EIdle /\ LIdle /\ YIdle /\ HIdle /\ UIdle /\ TIdle /\ XIdle /\ AIdle /\ NIdle /\ FIdle /\ KIdle /\ IIdle /\ GIdle /\ ZIdle

\* put_to_resync(hash, delay) and put_to_resync_at(hash, when)
put_to_resync_at(queue, when) == queue \cup {when}
put_to_resync(queue, delay) == put_to_resync_at(queue, now + delay)

block_incref_always ==
  /\ b_rc' = RcIncrement(b_rc)
  /\ b_queue' = put_to_resync(b_queue, 2 * BLOCK_RW_TIMEOUT)
  /\ b_zero_at' = -1

\* block_incref: the count is raised; a block that was at zero is fetched later
block_incref ==
  /\ b_rc' = RcIncrement(b_rc)
  /\ b_queue' = IF is_zero(b_rc) THEN put_to_resync(b_queue, 2 * BLOCK_RW_TIMEOUT)
                                 ELSE b_queue
  /\ b_zero_at' = -1

block_decref_skipped == UNCHANGED <<b_rc, b_queue, b_zero_at>>
\* block_decref: the count is lowered; at zero the block is collected later
block_decref ==
  /\ b_rc' = RcDecrement(b_rc, now)
  /\ b_queue' = IF b_rc'.kind = "Deletable"
                THEN put_to_resync(b_queue, BLOCK_GC_DELAY + 10000)
                ELSE b_queue
  /\ b_zero_at' = IF b_rc'.kind = "Deletable" THEN now ELSE b_zero_at

\* a BlockRef of the block becomes non-deleted on this node
BlockIncref ==
  /\ b_pc # "off"
  /\ b_ops < MaxOps
  /\ b_ops' = b_ops + 1
  /\ block_incref
  /\ UNCHANGED <<now, b_file, b_errors, b_pc, b_entry, b_iter_now, b_replies, b_acks,
                 p_rc, p_file, b_del>>
  /\ UNCHANGED <<stVars, objVars, mgVars, mVars, wVars, rVars, cVars, qVars, dVars, eVars, lVars, yVars, hVars, uVars, tVars, xVars, aVars, nVars, fVars, kVars, iVars, gVars, zVars>>

\* a non-deleted BlockRef of the block becomes deleted on this node
BlockDecref ==
  /\ b_pc # "off"
  /\ b_ops < MaxOps
  /\ b_ops' = b_ops + 1
  /\ is_nonzero(b_rc)
  /\ block_decref
  /\ UNCHANGED <<now, b_file, b_errors, b_pc, b_entry, b_iter_now, b_replies, b_acks,
                 p_rc, p_file, b_del>>
  /\ UNCHANGED <<stVars, objVars, mgVars, mVars, wVars, rVars, cVars, qVars, dVars, eVars, lVars, yVars, hVars, uVars, tVars, xVars, aVars, nVars, fVars, kVars, iVars, gVars, zVars>>

RepairDataStore ==
  /\ b_pc # "off"
  /\ b_ops < MaxOps
  /\ b_ops' = b_ops + 1
  /\ b_rc.kind # "Absent" \/ b_file
  /\ b_queue' = put_to_resync(b_queue, 0)
  /\ UNCHANGED <<now, b_rc, b_file, b_errors, b_pc, b_entry, b_iter_now, b_replies,
                 b_acks, p_rc, p_file, b_zero_at, b_del>>
  /\ UNCHANGED <<stVars, objVars, mgVars, mVars, wVars, rVars, cVars, qVars, dVars, eVars, lVars, yVars, hVars, uVars, tVars, xVars, aVars, nVars, fVars, kVars, iVars, gVars, zVars>>

\* handle(PutBlock) -> write_block: the file is written unless it exists
HandlePutBlock ==
  /\ b_pc # "off"
  /\ b_ops < MaxOps
  /\ b_ops' = b_ops + 1
  /\ b_file' = TRUE
  /\ UNCHANGED <<now, b_rc, b_queue, b_errors, b_pc, b_entry, b_iter_now, b_replies,
                 b_acks, p_rc, p_file, b_zero_at, b_del>>
  /\ UNCHANGED <<stVars, objVars, mgVars, mVars, wVars, rVars, cVars, qVars, dVars, eVars, lVars, yVars, hVars, uVars, tVars, xVars, aVars, nVars, fVars, kVars, iVars, gVars, zVars>>

\* resync_iter after resync_block returned Ok
ResyncOk(queue) ==
  /\ b_errors' = NoErrors
  /\ b_queue' = queue \ {b_entry}
  /\ b_pc' = "idle"

\* resync_iter after resync_block returned Err
ResyncErr ==
  LET err_counter == IF b_errors.some THEN add1(b_errors, b_iter_now + 1)
                                      ELSE ErrorCounterNew(b_iter_now + 1)
  IN /\ b_errors' = err_counter
     /\ b_queue' = put_to_resync_at(b_queue, next_try(err_counter)) \ {b_entry}
     /\ b_pc' = "idle"

\* resync_iter up to the first await of resync_block
ResyncIter ==
  /\ b_pc = "idle"
  /\ b_queue # {}
  /\ LET time_msec == SetMin(b_queue) IN
     /\ now >= time_msec
     /\ IF b_errors.some /\ now < next_try(b_errors)
        THEN /\ b_queue' = put_to_resync_at(b_queue, next_try(b_errors)) \ {time_msec}
             /\ UNCHANGED <<b_errors, b_pc, b_entry, b_iter_now, b_replies, b_acks>>
        ELSE /\ b_entry' = time_msec
             /\ b_iter_now' = now
             /\ b_replies' = NoAnswers
             /\ b_acks' = NoAnswers
             /\ IF b_file /\ is_deletable(b_rc, now)
                THEN b_pc' = "query" /\ UNCHANGED <<b_queue, b_errors>>
                ELSE IF is_nonzero(b_rc) /\ ~b_file
                THEN b_pc' = "fetch" /\ UNCHANGED <<b_queue, b_errors>>
                ELSE /\ b_errors' = NoErrors
                     /\ b_queue' = b_queue \ {time_msec}
                     /\ b_pc' = "idle"
  /\ UNCHANGED <<now, b_rc, b_file, p_rc, p_file, b_zero_at, b_del>>
  /\ UNCHANGED <<b_ops, stVars, objVars, mgVars, mVars, wVars, rVars, cVars, qVars, dVars, eVars, lVars, yVars, hVars, uVars, tVars, xVars, aVars, nVars, fVars, kVars, iVars, gVars, zVars>>

\* a node of write_nodes(hash) answers NeedBlockQuery with need_block(hash)
NeedBlockReply(n) ==
  /\ b_pc = "query"
  /\ b_replies[n] = "none"
  /\ b_replies' = [b_replies EXCEPT ![n] = IF PeerNeedBlock(n) THEN "true" ELSE "false"]
  /\ UNCHANGED <<now, b_rc, b_file, b_queue, b_errors, b_pc, b_entry, b_iter_now,
                 b_acks, p_rc, p_file, b_zero_at, b_del>>
  /\ UNCHANGED <<b_ops, stVars, objVars, mgVars, mVars, wVars, rVars, cVars, qVars, dVars, eVars, lVars, yVars, hVars, uVars, tVars, xVars, aVars, nVars, fVars, kVars, iVars, gVars, zVars>>

\* the NeedBlockQuery to a node times out or fails
NeedBlockFail(n) ==
  /\ b_pc = "query"
  /\ b_replies[n] = "none"
  /\ b_ops < MaxOps
  /\ b_ops' = b_ops + 1
  /\ b_replies' = [b_replies EXCEPT ![n] = "err"]
  /\ UNCHANGED <<now, b_rc, b_file, b_queue, b_errors, b_pc, b_entry, b_iter_now,
                 b_acks, p_rc, p_file, b_zero_at, b_del>>
  /\ UNCHANGED <<stVars, objVars, mgVars, mVars, wVars, rVars, cVars, qVars, dVars, eVars, lVars, yVars, hVars, uVars, tVars, xVars, aVars, nVars, fVars, kVars, iVars, gVars, zVars>>

\* the `?` applied to every answer collected by join_all
QueryFailedIgnored(replies) == FALSE
QueryFailed(replies) == \E n \in Peers : replies[n] = "err"

\* resync_block once join_all returned every answer
NeedBlockJoin ==
  /\ b_pc = "query"
  /\ \A n \in Peers : b_replies[n] # "none"
  /\ IF QueryFailed(b_replies)
     THEN ResyncErr
     ELSE /\ b_pc' = IF NeedNodes = {} THEN "delete" ELSE "put"
          /\ UNCHANGED <<b_queue, b_errors>>
  /\ UNCHANGED <<now, b_rc, b_file, b_entry, b_iter_now, b_replies, b_acks,
                 p_rc, p_file, b_zero_at, b_del>>
  /\ UNCHANGED <<b_ops, stVars, objVars, mgVars, mVars, wVars, rVars, cVars, qVars, dVars, eVars, lVars, yVars, hVars, uVars, tVars, xVars, aVars, nVars, fVars, kVars, iVars, gVars, zVars>>

\* a node that needs the block stores it and acknowledges the PutBlock
PutBlockAck(n) ==
  /\ b_pc = "put"
  /\ n \in NeedNodes
  /\ b_acks[n] = "none"
  /\ p_file' = [p_file EXCEPT ![n] = TRUE]
  /\ b_acks' = [b_acks EXCEPT ![n] = "ok"]
  /\ UNCHANGED <<now, b_rc, b_file, b_queue, b_errors, b_pc, b_entry, b_iter_now,
                 b_replies, p_rc, b_zero_at, b_del>>
  /\ UNCHANGED <<b_ops, stVars, objVars, mgVars, mVars, wVars, rVars, cVars, qVars, dVars, eVars, lVars, yVars, hVars, uVars, tVars, xVars, aVars, nVars, fVars, kVars, iVars, gVars, zVars>>

PutBlockFail(n) ==
  /\ b_pc = "put"
  /\ n \in NeedNodes
  /\ b_acks[n] = "none"
  /\ b_ops < MaxOps
  /\ b_ops' = b_ops + 1
  /\ b_acks' = [b_acks EXCEPT ![n] = "err"]
  /\ UNCHANGED <<now, b_rc, b_file, b_queue, b_errors, b_pc, b_entry, b_iter_now,
                 b_replies, p_rc, p_file, b_zero_at, b_del>>
  /\ UNCHANGED <<stVars, objVars, mgVars, mVars, wVars, rVars, cVars, qVars, dVars, eVars, lVars, yVars, hVars, uVars, tVars, xVars, aVars, nVars, fVars, kVars, iVars, gVars, zVars>>

\* try_call_many with quorum need_nodes.len() returns
PutBlockJoin ==
  /\ b_pc = "put"
  /\ IF \E n \in NeedNodes : b_acks[n] = "err"
     THEN ResyncErr
     ELSE /\ \A n \in NeedNodes : b_acks[n] = "ok"
          /\ b_pc' = "delete"
          /\ UNCHANGED <<b_queue, b_errors>>
  /\ UNCHANGED <<now, b_rc, b_file, b_entry, b_iter_now, b_replies, b_acks,
                 p_rc, p_file, b_zero_at, b_del>>
  /\ UNCHANGED <<b_ops, stVars, objVars, mgVars, mVars, wVars, rVars, cVars, qVars, dVars, eVars, lVars, yVars, hVars, uVars, tVars, xVars, aVars, nVars, fVars, kVars, iVars, gVars, zVars>>

DeleteIfUnneededGone(exists, needed, t) == exists
DeleteIfUnneededUnchecked(exists, needed, t) == TRUE
DeleteIfUnneeded(exists, needed, t) == exists /\ is_deletable(needed, t)

\* delete_if_unneeded, clear_deleted_block_rc, and the return to resync_iter
ResyncDelete ==
  /\ b_pc = "delete"
  /\ IF DeleteIfUnneeded(b_file, b_rc, now)
     THEN /\ b_file' = FALSE
          /\ b_del' = [some |-> TRUE, at |-> now, zero_at |-> b_zero_at,
                       replies |-> b_replies, acks |-> b_acks,
                       needing |-> {n \in Peers : PeerNeedBlock(n)}]
     ELSE UNCHANGED <<b_file, b_del>>
  /\ b_rc' = ClearDeletedBlockRc(b_rc, now)
  /\ ResyncOk(b_queue)
  /\ UNCHANGED <<now, b_entry, b_iter_now, b_replies, b_acks, p_rc, p_file, b_zero_at>>
  /\ UNCHANGED <<b_ops, stVars, objVars, mgVars, mVars, wVars, rVars, cVars, qVars, dVars, eVars, lVars, yVars, hVars, uVars, tVars, xVars, aVars, nVars, fVars, kVars, iVars, gVars, zVars>>

\* rpc_get_raw_block from a node that stores the block, then write_block
ResyncFetch(n) ==
  /\ b_pc = "fetch"
  /\ p_file[n]
  /\ b_file' = TRUE
  /\ ResyncOk(b_queue)
  /\ UNCHANGED <<now, b_rc, b_entry, b_iter_now, b_replies, b_acks, p_rc, p_file,
                 b_zero_at, b_del>>
  /\ UNCHANGED <<b_ops, stVars, objVars, mgVars, mVars, wVars, rVars, cVars, qVars, dVars, eVars, lVars, yVars, hVars, uVars, tVars, xVars, aVars, nVars, fVars, kVars, iVars, gVars, zVars>>

ResyncFetchFail ==
  /\ b_pc = "fetch"
  /\ b_ops < MaxOps
  /\ b_ops' = b_ops + 1
  /\ ResyncErr
  /\ UNCHANGED <<now, b_rc, b_file, b_entry, b_iter_now, b_replies, b_acks, p_rc,
                 p_file, b_zero_at, b_del>>
  /\ UNCHANGED <<stVars, objVars, mgVars, mVars, wVars, rVars, cVars, qVars, dVars, eVars, lVars, yVars, hVars, uVars, tVars, xVars, aVars, nVars, fVars, kVars, iVars, gVars, zVars>>

\* a BlockRef update reaches another node: its count becomes positive or zero
PeerBlockRef(n) ==
  /\ b_pc # "off"
  /\ b_ops < MaxOps
  /\ b_ops' = b_ops + 1
  /\ p_rc' = [p_rc EXCEPT ![n] = ~p_rc[n]]
  /\ UNCHANGED <<now, b_rc, b_file, b_queue, b_errors, b_pc, b_entry, b_iter_now,
                 b_replies, b_acks, p_file, b_zero_at, b_del>>
  /\ UNCHANGED <<stVars, objVars, mgVars, mVars, wVars, rVars, cVars, qVars, dVars, eVars, lVars, yVars, hVars, uVars, tVars, xVars, aVars, nVars, fVars, kVars, iVars, gVars, zVars>>

\* time passes up to the next instant at which something can change
Instants ==
  b_queue \cup (IF b_rc.kind = "Deletable" THEN {b_rc.at_time + 1} ELSE {})
          \cup (IF b_errors.some THEN {next_try(b_errors)} ELSE {})

Tick ==
  /\ b_pc # "off"
  /\ \E t \in Instants : t > now
  /\ now' = SetMin({t \in Instants : t > now})
  /\ UNCHANGED <<b_rc, b_file, b_queue, b_errors, b_pc, b_entry, b_iter_now,
                 b_replies, b_acks, p_rc, p_file, b_zero_at, b_del>>
  /\ UNCHANGED <<b_ops, stVars, objVars, mgVars, mVars, wVars, rVars, cVars, qVars, dVars, eVars, lVars, yVars, hVars, uVars, tVars, xVars, aVars, nVars, fVars, kVars, iVars, gVars, zVars>>

BNext ==
  \/ BlockIncref
  \/ BlockDecref
  \/ RepairDataStore
  \/ HandlePutBlock
  \/ ResyncIter
  \/ \E n \in Peers : NeedBlockReply(n)
  \/ \E n \in Peers : NeedBlockFail(n)
  \/ NeedBlockJoin
  \/ \E n \in Peers : PutBlockAck(n)
  \/ \E n \in Peers : PutBlockFail(n)
  \/ PutBlockJoin
  \/ ResyncDelete
  \/ \E n \in Peers : ResyncFetch(n)
  \/ ResyncFetchFail
  \/ \E n \in Peers : PeerBlockRef(n)
  \/ Tick

SpecBlock == BInit /\ [][BNext]_vars

(***************************************************************************)
(* BlockRef rows of one block hash on one node, and its reference count    *)
(***************************************************************************)
MaxRefs == 2
RefVersions == 1..MaxRefs

\* merge of a stored BlockRef with an update: deleted is a Bool CRDT (or)
BlockRefMerge(old, update) ==
  IF old = "none" THEN update
  ELSE IF old = "deleted" \/ update = "deleted" THEN "deleted" ELSE "live"

\* the table stores the merged row and calls the updated hook of BlockRefTable
ApplyBlockRef(v, update) ==
  LET old == r_refs[v]
      new == BlockRefMerge(old, update)
      was_before == old = "live"
      is_after == new = "live"
  IN /\ r_refs' = [r_refs EXCEPT ![v] = new]
     /\ IF is_after /\ ~was_before THEN block_incref
        ELSE IF was_before /\ ~is_after THEN block_decref
        ELSE UNCHANGED <<b_rc, b_queue, b_zero_at>>

RInit ==
  /\ r_refs = [v \in RefVersions |-> "none"]
  /\ r_version = [v \in RefVersions |-> "none"]
  /\ now = 0 /\ b_rc = RcAbsent /\ b_file = FALSE /\ b_queue = {} /\ b_errors = <<>>
  /\ b_pc = "off" /\ b_entry = 0 /\ b_iter_now = 0 /\ b_replies = <<>> /\ b_acks = <<>>
  /\ p_rc = <<>> /\ p_file = <<>> /\ b_zero_at = -1 /\ b_del = <<>> /\ b_ops = 0
  /\ StIdle /\ ObjIdle /\ MgIdle /\ MIdle /\ WIdle /\ CIdle /\ QIdle /\ DIdle /\ EIdle /\ LIdle /\ YIdle /\ HIdle /\ UIdle /\ TIdle /\ XIdle /\ AIdle /\ NIdle /\ FIdle /\ KIdle /\ IIdle /\ GIdle /\ ZIdle

\* an insert or a tombstone of the BlockRef (hash, v) reaches this node, from
\* a writer or from the syncer, in any order and any number of times
BlockRefUpdate(v, update) ==
  /\ r_refs # <<>>
  /\ ApplyBlockRef(v, update)
  /\ UNCHANGED <<now, b_file, b_errors, b_pc, b_entry, b_iter_now, b_replies, b_acks,
                 p_rc, p_file, b_del, b_ops, r_version>>
  /\ UNCHANGED <<stVars, objVars, mgVars, mVars, wVars, cVars, qVars, dVars, eVars, lVars, yVars, hVars, uVars, tVars, xVars, aVars, nVars, fVars, kVars, iVars, gVars, zVars>>

\* the Version row v is written, then marked deleted
VersionUpdate(v) ==
  /\ r_refs # <<>>
  /\ r_version[v] # "deleted"
  /\ r_version' = [r_version EXCEPT ![v] = IF @ = "none" THEN "live" ELSE "deleted"]
  /\ UNCHANGED <<r_refs, bVars, stVars, objVars, mgVars, mVars, wVars, cVars, qVars, dVars, eVars, lVars, yVars, hVars, uVars, tVars, xVars, aVars, nVars, fVars, kVars, iVars, gVars, zVars>>

\* RepairBlockrefsWorker::work on the row (hash, v)
RepairBlockrefs(v) ==
  /\ r_refs # <<>>
  /\ r_refs[v] # "none"
  /\ LET ref_exists == r_version[v] = "live" IN
     IF r_refs[v] # "deleted" /\ ~ref_exists
     THEN ApplyBlockRef(v, "deleted")
     ELSE UNCHANGED <<r_refs, b_rc, b_queue, b_zero_at>>
  /\ UNCHANGED <<now, b_file, b_errors, b_pc, b_entry, b_iter_now, b_replies, b_acks,
                 p_rc, p_file, b_del, b_ops, r_version>>
  /\ UNCHANGED <<stVars, objVars, mgVars, mVars, wVars, cVars, qVars, dVars, eVars, lVars, yVars, hVars, uVars, tVars, xVars, aVars, nVars, fVars, kVars, iVars, gVars, zVars>>

RNext ==
  \/ \E v \in RefVersions, update \in {"live", "deleted"} : BlockRefUpdate(v, update)
  \/ \E v \in RefVersions : VersionUpdate(v)
  \/ \E v \in RefVersions : RepairBlockrefs(v)

SpecBlockRef == RInit /\ [][RNext]_vars

(***************************************************************************)
(* handle_copy of an object stored in blocks, with the table hooks and     *)
(* workers that propagate the deletion of versions and block references    *)
(***************************************************************************)
MaxBlocks == 2
Blocks == 1..MaxBlocks

NoVersion == [state |-> "none", blocks |-> {}]
\* Version::new(uuid, backlink, deleted) followed by blocks.put for each block
Version(blocks, deleted) ==
  IF deleted THEN [state |-> "deleted", blocks |-> {}]
             ELSE [state |-> "live", blocks |-> blocks]

\* merge of a stored Version with an update: deleted wins and clears the blocks
VersionMerge(old, update) ==
  IF old.state = "none" THEN update
  ELSE IF old.state = "deleted" \/ update.state = "deleted" THEN Version({}, TRUE)
  ELSE Version(old.blocks \cup update.blocks, FALSE)

\* VersionTable::updated: tombstones enqueued for the blocks of a deleted version
DeletedBlockRefs(u, old, new) ==
  IF old.state = "live" /\ new.state = "deleted"
  THEN {<<b, u>> : b \in old.blocks}
  ELSE {}

\* ObjectTable::updated, step 2: uuids of the versions whose deletion is enqueued
DeletedVersions(old, new) ==
  IF old.some /\ new.some
  THEN {old.versions[j].uuid : j \in {i \in 1..Len(old.versions) :
          LET v == old.versions[i]
              new_v_id == BinarySearch(new.versions, cmp_key(v))
          IN IF ~new_v_id.found THEN TRUE
             ELSE /\ new.versions[new_v_id.idx + 1].state = Aborted
                  /\ v.state # Aborted}}
  ELSE {}

\* the steps of handle_copy for a source stored in blocks, in program order
CopyOrderVersionFirst == <<"version_empty", "object_uploading", "join", "object_complete">>
CopyOrderCompleteFirst == <<"object_uploading", "version_empty", "object_complete", "join">>
CopyOrder == <<"object_uploading", "version_empty", "join", "object_complete">>

CopyFailed == 0
CopyDone == Len(CopyOrder) + 1
CopyAt(step) == c_pc \in 1..Len(CopyOrder) /\ CopyOrder[c_pc] = step

\* try_join! returns Ok once both inserts returned Ok
JoinSucceededVersionOnly(join) == join.version
JoinSucceeded(join) == join.version /\ join.refs = Blocks

SourceVersion == ObjectVersion(c_ids.src, TimestampOf(c_ids.src), Complete(FirstBlock(1, 1)))
tmp_dest_object_version ==
  ObjectVersion(c_ids.new, TimestampOf(c_ids.new), Uploading(FALSE, 1))
dest_object_version ==
  ObjectVersion(c_ids.new, TimestampOf(c_ids.new), Complete(FirstBlock(1, 1)))

CInit ==
  /\ \E src, new \in Uuids, same \in BOOLEAN :
       /\ src # new
       /\ c_ids = [src |-> src, new |-> new, same |-> same]
       /\ c_object = IF same
                     THEN Some(ObjectNew(<<ObjectVersion(src, TimestampOf(src),
                                                         Complete(FirstBlock(1, 1)))>>))
                     ELSE None
       /\ c_version = [u \in Uuids |-> IF u = src THEN Version(Blocks, FALSE)
                                                  ELSE NoVersion]
       /\ c_refs = [b \in Blocks |-> [u \in Uuids |-> IF u = src THEN "live" ELSE "none"]]
  /\ c_rc = [b \in Blocks |-> RcPresent(1)]
  /\ c_vq = {} /\ c_rq = {}
  /\ c_pc = 1
  /\ c_join = [version |-> FALSE, refs |-> {}]
  /\ c_log = <<>>
  /\ c_seen = {}
  /\ StIdle /\ ObjIdle /\ MgIdle /\ MIdle /\ WIdle /\ BIdle /\ RIdle /\ QIdle /\ DIdle /\ EIdle /\ LIdle /\ YIdle /\ HIdle /\ UIdle /\ TIdle /\ XIdle /\ AIdle /\ NIdle /\ FIdle /\ KIdle /\ IIdle /\ GIdle /\ ZIdle

\* object_table.insert: the row is merged and ObjectTable::updated runs
ObjectInsert(update) ==
  /\ c_object' = TableUpdate(c_object, update)
  /\ c_vq' = c_vq \cup DeletedVersions(c_object, c_object')

\* version_table.insert: the row is merged and VersionTable::updated runs
VersionInsert(u, update) ==
  /\ c_version' = [c_version EXCEPT ![u] = VersionMerge(@, update)]
  /\ c_rq' = c_rq \cup DeletedBlockRefs(u, c_version[u], c_version'[u])

\* block_ref_table.insert: the row is merged and BlockRefTable::updated runs
BlockRefInsert(b, u, update) ==
  LET old == c_refs[b][u]
      new == BlockRefMerge(old, update)
      was_before == old = "live"
      is_after == new = "live"
  IN /\ c_refs' = [c_refs EXCEPT ![b][u] = new]
     /\ c_rc' = [c_rc EXCEPT ![b] = IF is_after /\ ~was_before THEN RcIncrement(@)
                                    ELSE IF was_before /\ ~is_after
                                    THEN RcDecrement(@, now)
                                    ELSE @]

CopyObjectUploading ==
  /\ CopyAt("object_uploading")
  /\ c_version[c_ids.src].state = "live"
  /\ ObjectInsert(ObjectNew(<<tmp_dest_object_version>>))
  /\ c_pc' = c_pc + 1
  /\ c_log' = Append(c_log, "object_uploading")
  /\ UNCHANGED <<c_version, c_refs, c_rc, c_rq, c_join, c_ids, c_seen>>
  /\ UNCHANGED <<stVars, objVars, mgVars, mVars, wVars, bVars, rVars, qVars, dVars, eVars, lVars, yVars, hVars, uVars, tVars, xVars, aVars, nVars, fVars, kVars, iVars, gVars, zVars>>

CopyVersionEmpty ==
  /\ CopyAt("version_empty")
  /\ VersionInsert(c_ids.new, Version({}, FALSE))
  /\ c_pc' = c_pc + 1
  /\ c_log' = Append(c_log, "version_empty")
  /\ UNCHANGED <<c_object, c_refs, c_rc, c_vq, c_join, c_ids, c_seen>>
  /\ UNCHANGED <<stVars, objVars, mgVars, mVars, wVars, bVars, rVars, qVars, dVars, eVars, lVars, yVars, hVars, uVars, tVars, xVars, aVars, nVars, fVars, kVars, iVars, gVars, zVars>>

\* first future of try_join!: version_table.insert(&dest_version)
CopyVersionBlocks ==
  /\ CopyAt("join")
  /\ ~c_join.version
  /\ VersionInsert(c_ids.new, Version(Blocks, FALSE))
  /\ c_join' = [c_join EXCEPT !.version = TRUE]
  /\ c_log' = Append(c_log, "version_blocks")
  /\ UNCHANGED <<c_object, c_refs, c_rc, c_vq, c_pc, c_ids, c_seen>>
  /\ UNCHANGED <<stVars, objVars, mgVars, mVars, wVars, bVars, rVars, qVars, dVars, eVars, lVars, yVars, hVars, uVars, tVars, xVars, aVars, nVars, fVars, kVars, iVars, gVars, zVars>>

\* second future of try_join!: block_ref_table.insert_many, one row at a time
CopyBlockRef(b) ==
  /\ CopyAt("join")
  /\ b \notin c_join.refs
  /\ BlockRefInsert(b, c_ids.new, "live")
  /\ c_join' = [c_join EXCEPT !.refs = @ \cup {b}]
  /\ c_log' = Append(c_log, "block_ref")
  /\ UNCHANGED <<c_object, c_version, c_vq, c_rq, c_pc, c_ids, c_seen>>
  /\ UNCHANGED <<stVars, objVars, mgVars, mVars, wVars, bVars, rVars, qVars, dVars, eVars, lVars, yVars, hVars, uVars, tVars, xVars, aVars, nVars, fVars, kVars, iVars, gVars, zVars>>

CopyJoin ==
  /\ CopyAt("join")
  /\ JoinSucceeded(c_join)
  /\ c_pc' = c_pc + 1
  /\ UNCHANGED <<c_object, c_version, c_refs, c_rc, c_vq, c_rq, c_join, c_ids, c_seen, c_log>>
  /\ UNCHANGED <<stVars, objVars, mgVars, mVars, wVars, bVars, rVars, qVars, dVars, eVars, lVars, yVars, hVars, uVars, tVars, xVars, aVars, nVars, fVars, kVars, iVars, gVars, zVars>>

CopyObjectComplete ==
  /\ CopyAt("object_complete")
  /\ ObjectInsert(ObjectNew(<<dest_object_version>>))
  /\ c_pc' = c_pc + 1
  /\ c_log' = Append(c_log, "object_complete")
  /\ UNCHANGED <<c_version, c_refs, c_rc, c_rq, c_join, c_ids, c_seen>>
  /\ UNCHANGED <<stVars, objVars, mgVars, mVars, wVars, bVars, rVars, qVars, dVars, eVars, lVars, yVars, hVars, uVars, tVars, xVars, aVars, nVars, fVars, kVars, iVars, gVars, zVars>>

\* an insert returns an error and `?` leaves handle_copy
CopyFail ==
  /\ c_pc \in 1..Len(CopyOrder)
  /\ c_pc' = CopyFailed
  /\ UNCHANGED <<c_object, c_version, c_refs, c_rc, c_vq, c_rq, c_join, c_ids, c_seen, c_log>>
  /\ UNCHANGED <<stVars, objVars, mgVars, mVars, wVars, bVars, rVars, qVars, dVars, eVars, lVars, yVars, hVars, uVars, tVars, xVars, aVars, nVars, fVars, kVars, iVars, gVars, zVars>>

\* the insert queue worker sends a queued deleted Version to the version table
PropagateVersion(u) ==
  /\ u \in c_vq
  /\ VersionInsert(u, Version({}, TRUE))
  /\ c_vq' = c_vq \ {u}
  /\ UNCHANGED <<c_object, c_refs, c_rc, c_pc, c_join, c_ids, c_seen, c_log>>
  /\ UNCHANGED <<stVars, objVars, mgVars, mVars, wVars, bVars, rVars, qVars, dVars, eVars, lVars, yVars, hVars, uVars, tVars, xVars, aVars, nVars, fVars, kVars, iVars, gVars, zVars>>

\* the insert queue worker sends a queued deleted BlockRef to the block_ref table
PropagateBlockRef(b, u) ==
  /\ <<b, u>> \in c_rq
  /\ BlockRefInsert(b, u, "deleted")
  /\ c_rq' = c_rq \ {<<b, u>>}
  /\ UNCHANGED <<c_object, c_version, c_vq, c_pc, c_join, c_ids, c_seen, c_log>>
  /\ UNCHANGED <<stVars, objVars, mgVars, mVars, wVars, bVars, rVars, qVars, dVars, eVars, lVars, yVars, hVars, uVars, tVars, xVars, aVars, nVars, fVars, kVars, iVars, gVars, zVars>>

\* the Object row that lists version u: the source of a copy to another key
\* stays in its own row
ObjectOf(u) ==
  IF u = c_ids.src /\ ~c_ids.same
  THEN Some(ObjectNew(<<SourceVersion>>))
  ELSE c_object

\* RepairVersionsWorker::work on the Version row u, once in the pass
CopyRepairVersions(u) ==
  /\ c_pc >= 0
  /\ u \notin c_seen
  /\ c_version[u].state # "none"
  /\ c_seen' = c_seen \cup {u}
  /\ LET row == ObjectOf(u)
         version_exists ==
           /\ row.some
           /\ \E i \in 1..Len(row.versions) :
                row.versions[i].uuid = u /\ row.versions[i].state # Aborted
     IN IF c_version[u].state = "live" /\ ~version_exists
        THEN VersionInsert(u, Version({}, TRUE))
        ELSE UNCHANGED <<c_version, c_rq>>
  /\ UNCHANGED <<c_object, c_refs, c_rc, c_vq, c_pc, c_join, c_ids, c_log>>
  /\ UNCHANGED <<stVars, objVars, mgVars, mVars, wVars, bVars, rVars, qVars, dVars, eVars, lVars, yVars, hVars, uVars, tVars, xVars, aVars, nVars, fVars, kVars, iVars, gVars, zVars>>

\* RepairBlockrefsWorker::work on the BlockRef row (b, u)
CopyRepairBlockrefs(b, u) ==
  /\ c_pc >= 0
  /\ c_refs[b][u] = "live"
  /\ LET ref_exists == c_version[u].state = "live"
     IN /\ ~ref_exists
        /\ BlockRefInsert(b, u, "deleted")
  /\ UNCHANGED <<c_object, c_version, c_vq, c_rq, c_pc, c_join, c_ids, c_seen, c_log>>
  /\ UNCHANGED <<stVars, objVars, mgVars, mVars, wVars, bVars, rVars, qVars, dVars, eVars, lVars, yVars, hVars, uVars, tVars, xVars, aVars, nVars, fVars, kVars, iVars, gVars, zVars>>

CNext ==
  \/ CopyObjectUploading
  \/ CopyVersionEmpty
  \/ CopyVersionBlocks
  \/ \E b \in Blocks : CopyBlockRef(b)
  \/ CopyJoin
  \/ CopyObjectComplete
  \/ CopyFail
  \/ \E u \in Uuids : PropagateVersion(u)
  \/ \E b \in Blocks, u \in Uuids : PropagateBlockRef(b, u)
  \/ \E u \in Uuids : CopyRepairVersions(u)
  \/ \E b \in Blocks, u \in Uuids : CopyRepairBlockrefs(b, u)

SpecCopy == CInit /\ [][CNext]_vars

(***************************************************************************)
(* rpc_put_block: one PutBlock sent to every node of write_nodes(hash)     *)
(***************************************************************************)
TickStep == 10000

\* .with_quorum(self.replication.write_quorum())
PutQuorumOne == WriteQuorum - 1
PutQuorum == WriteQuorum
\* .with_timeout(BLOCK_RW_TIMEOUT)
PutTimeout == BLOCK_RW_TIMEOUT

PutDeadline == q_t0 + PutTimeout
Acked(resp) == {n \in Replicas : resp[n] = "ack"}
Failed(resp) == {n \in Replicas : resp[n] = "err"}

\* try_call_many: Ok as soon as quorum successes arrived, the quorum error as
\* soon as too many requests failed for the quorum to be reached
TryCallMany(resp, quorum) ==
  IF Cardinality(Acked(resp)) >= quorum THEN "Ok"
  ELSE IF Cardinality(Failed(resp)) > Cardinality(Replicas) - quorum THEN "Err"
  ELSE "pending"

\* the caller of rpc_put_block gets the result the first time it is decided
PutResolve ==
  IF q_result = "pending" /\ TryCallMany(q_resp', PutQuorum) # "pending"
  THEN q_result' = TryCallMany(q_resp', PutQuorum) /\ q_done_at' = q_now
  ELSE UNCHANGED <<q_result, q_done_at>>

QInit ==
  /\ q_live \in [Replicas -> BOOLEAN]
  /\ q_resp = [n \in Replicas |-> "none"]
  /\ q_stored = [n \in Replicas |-> FALSE]
  /\ q_result = "none"
  /\ q_t0 = 0 /\ q_done_at = 0
  /\ q_now \in {0, TickStep}
  /\ StIdle /\ ObjIdle /\ MgIdle /\ MIdle /\ WIdle /\ BIdle /\ RIdle /\ CIdle /\ DIdle /\ EIdle /\ LIdle /\ YIdle /\ HIdle /\ UIdle /\ TIdle /\ XIdle /\ AIdle /\ NIdle /\ FIdle /\ KIdle /\ IIdle /\ GIdle /\ ZIdle

RpcPutBlock ==
  /\ q_result = "none"
  /\ q_resp' = [n \in Replicas |-> "sent"]
  /\ q_t0' = q_now
  /\ q_result' = "pending"
  /\ UNCHANGED <<q_live, q_stored, q_done_at, q_now>>
  /\ UNCHANGED <<stVars, objVars, mgVars, mVars, wVars, bVars, rVars, cVars, dVars, eVars, lVars, yVars, hVars, uVars, tVars, xVars, aVars, nVars, fVars, kVars, iVars, gVars, zVars>>

\* a live node handles the PutBlock and stores the block
PutBlockHandled(n) ==
  /\ q_result # "none"
  /\ q_live[n]
  /\ q_resp[n] = "sent"
  /\ ~q_stored[n]
  /\ q_stored' = [q_stored EXCEPT ![n] = TRUE]
  /\ UNCHANGED <<q_live, q_resp, q_result, q_t0, q_done_at, q_now>>
  /\ UNCHANGED <<stVars, objVars, mgVars, mVars, wVars, bVars, rVars, cVars, dVars, eVars, lVars, yVars, hVars, uVars, tVars, xVars, aVars, nVars, fVars, kVars, iVars, gVars, zVars>>

\* the answer of a node that stored the block reaches the caller
PutBlockAcked(n) ==
  /\ q_resp[n] = "sent"
  /\ q_stored[n]
  /\ q_resp' = [q_resp EXCEPT ![n] = "ack"]
  /\ PutResolve
  /\ UNCHANGED <<q_live, q_stored, q_t0, q_now>>
  /\ UNCHANGED <<stVars, objVars, mgVars, mVars, wVars, bVars, rVars, cVars, dVars, eVars, lVars, yVars, hVars, uVars, tVars, xVars, aVars, nVars, fVars, kVars, iVars, gVars, zVars>>

\* the request to a node fails: the node is down or the connection breaks
PutBlockError(n) ==
  /\ q_resp[n] = "sent"
  /\ q_resp' = [q_resp EXCEPT ![n] = "err"]
  /\ PutResolve
  /\ UNCHANGED <<q_live, q_stored, q_t0, q_now>>
  /\ UNCHANGED <<stVars, objVars, mgVars, mVars, wVars, bVars, rVars, cVars, dVars, eVars, lVars, yVars, hVars, uVars, tVars, xVars, aVars, nVars, fVars, kVars, iVars, gVars, zVars>>

\* the timeout of the strategy ends every request that is still in flight
PutBlockTimeout ==
  /\ q_now = PutDeadline
  /\ \E n \in Replicas : q_resp[n] = "sent"
  /\ q_resp' = [n \in Replicas |-> IF q_resp[n] = "sent" THEN "err" ELSE q_resp[n]]
  /\ PutResolve
  /\ UNCHANGED <<q_live, q_stored, q_t0, q_now>>
  /\ UNCHANGED <<stVars, objVars, mgVars, mVars, wVars, bVars, rVars, cVars, dVars, eVars, lVars, yVars, hVars, uVars, tVars, xVars, aVars, nVars, fVars, kVars, iVars, gVars, zVars>>

\* time passes, but not beyond the deadline of a request in flight
PutTick ==
  /\ q_result # "none"
  /\ q_now <= PutDeadline
  /\ (\E n \in Replicas : q_resp[n] = "sent") => q_now < PutDeadline
  /\ q_now' = IF \E n \in Replicas : q_resp[n] = "sent"
              THEN MinOf(q_now + TickStep, PutDeadline)
              ELSE q_now + TickStep
  /\ UNCHANGED <<q_live, q_resp, q_stored, q_result, q_t0, q_done_at>>
  /\ UNCHANGED <<stVars, objVars, mgVars, mVars, wVars, bVars, rVars, cVars, dVars, eVars, lVars, yVars, hVars, uVars, tVars, xVars, aVars, nVars, fVars, kVars, iVars, gVars, zVars>>

QNext ==
  \/ RpcPutBlock
  \/ \E n \in Replicas : PutBlockHandled(n)
  \/ \E n \in Replicas : PutBlockAcked(n)
  \/ \E n \in Replicas : PutBlockError(n)
  \/ PutBlockTimeout
  \/ PutTick

SpecPut == QInit /\ [][QNext]_vars

(***************************************************************************)
(* The data directory of one node, for one hash: the block file in plain   *)
(* form, in .zst form, the .tmp file and the .corrupted files              *)
(***************************************************************************)
MaxDiskOps == 4

NoDir == [plain |-> "none", zst |-> "none", tmp |-> FALSE, corrupted |-> {},
          writes |-> 0]

\* is_block_compressed: Ok(true) for a .zst file, Ok(false) for a plain file,
\* the error of fs::metadata when there is neither
is_block_compressed(dir) ==
  IF dir.zst # "none" THEN "true"
  ELSE IF dir.plain # "none" THEN "false"
  ELSE "Err"

\* BlockManagerLocked::write_block. outcome is what the file system lets
\* through: "ok", "tmp_left" (the write of the .tmp file fails) or
\* "plain_left" (the rename succeeded, remove_file of the plain form failed)
write_block_always(dir, compressed, outcome) ==
  [dir |-> [dir EXCEPT !.plain = IF compressed THEN "none" ELSE "good",
                       !.zst = IF compressed THEN "good" ELSE dir.zst,
                       !.tmp = FALSE, !.writes = dir.writes + 1],
   res |-> "Ok"]

write_block(dir, compressed, outcome) ==
  LET stored == is_block_compressed(dir) IN
  IF stored = "true" \/ (stored = "false" /\ ~compressed)
  THEN [dir |-> dir, res |-> "Ok"]
  ELSE IF outcome = "tmp_left"
  THEN [dir |-> [dir EXCEPT !.tmp = TRUE], res |-> "IoError"]
  ELSE IF compressed
  THEN IF stored = "false" /\ outcome = "plain_left"
       THEN [dir |-> [dir EXCEPT !.zst = "good", !.tmp = FALSE,
                                 !.writes = dir.writes + 1],
             res |-> "IoError"]
       ELSE [dir |-> [dir EXCEPT !.zst = "good", !.plain = "none", !.tmp = FALSE,
                                 !.writes = dir.writes + 1],
             res |-> "Ok"]
  ELSE [dir |-> [dir EXCEPT !.plain = "good", !.tmp = FALSE,
                            !.writes = dir.writes + 1],
        res |-> "Ok"]

\* move_block_to_corrupted: the form is_block_compressed selects is renamed
move_block_to_corrupted_plain(dir) ==
  [dir EXCEPT !.plain = "none",
              !.corrupted = dir.corrupted \cup {"corrupted"}]

move_block_to_corrupted(dir) ==
  IF is_block_compressed(dir) = "true"
  THEN [dir EXCEPT !.zst = "none",
                   !.corrupted = dir.corrupted \cup {"zst.corrupted"}]
  ELSE [dir EXCEPT !.plain = "none",
                   !.corrupted = dir.corrupted \cup {"corrupted"}]

\* check_block_status
BlockExists(dir) == is_block_compressed(dir) # "Err"

\* need_block
need_block_any(rc, dir) == is_nonzero(rc)
need_block(rc, dir) == is_nonzero(rc) /\ ~BlockExists(dir)

\* delete_if_unneeded: remove_file of the form is_block_compressed selects
delete_if_unneeded(rc, dir, t) ==
  IF BlockExists(dir) /\ is_deletable(rc, t)
  THEN IF is_block_compressed(dir) = "true"
       THEN [dir EXCEPT !.zst = "none"]
       ELSE [dir EXCEPT !.plain = "none"]
  ELSE dir

Bool(b) == IF b THEN "true" ELSE "false"

DInit ==
  /\ d_dir \in {NoDir, [NoDir EXCEPT !.plain = "good"], [NoDir EXCEPT !.zst = "good"]}
  /\ d_rc \in {RcAbsent, RcPresent(1)}
  /\ d_queue = {}
  /\ d_now = 0
  /\ d_read = "idle"
  /\ d_last = "none"
  /\ d_reply = "none"
  /\ d_ops = 0
  /\ StIdle /\ ObjIdle /\ MgIdle /\ MIdle /\ WIdle /\ BIdle /\ RIdle /\ CIdle /\ QIdle /\ EIdle /\ LIdle /\ YIdle /\ HIdle /\ UIdle /\ TIdle /\ XIdle /\ AIdle /\ NIdle /\ FIdle /\ KIdle /\ IIdle /\ GIdle /\ ZIdle

DiskOthers == UNCHANGED <<stVars, objVars, mgVars, mVars, wVars, bVars, rVars, cVars, qVars, eVars, lVars, yVars, hVars, uVars, tVars, xVars, aVars, nVars, fVars, kVars, iVars, gVars, zVars>>

\* handle(PutBlock{hash, data}): write_block under the mutation lock
DiskPutBlock(compressed, outcome) ==
  /\ d_last # "off"
  /\ d_ops < MaxDiskOps
  /\ d_ops' = d_ops + 1
  /\ d_dir' = write_block(d_dir, compressed, outcome).dir
  /\ d_reply' = write_block(d_dir, compressed, outcome).res
  /\ d_last' = IF compressed THEN "PutBlockCompressed" ELSE "PutBlockPlain"
  /\ UNCHANGED <<d_rc, d_queue, d_now, d_read>>
  /\ DiskOthers

\* the contents of a stored file stop hashing to the hash
DiskBitFlip(form) ==
  /\ d_last # "off"
  /\ d_ops < MaxDiskOps
  /\ d_ops' = d_ops + 1
  /\ d_dir[form] = "good"
  /\ d_dir' = [d_dir EXCEPT ![form] = "bad"]
  /\ d_last' = "BitFlip"
  /\ UNCHANGED <<d_rc, d_queue, d_now, d_read, d_reply>>
  /\ DiskOthers

\* read_block_internal up to the verification of the data: a missing file is
\* put to resync, good data is returned, bad data waits for the mutation lock
DiskReadBlock ==
  /\ d_last # "off"
  /\ d_read = "idle"
  /\ LET c == is_block_compressed(d_dir)
         data == IF c = "true" THEN d_dir.zst ELSE d_dir.plain
     IN IF c = "Err"
        THEN /\ d_queue' = d_queue \cup {d_now + 2 * BLOCK_RW_TIMEOUT}
             /\ d_reply' = "IoError"
             /\ d_read' = "idle"
             /\ d_last' = "ReadMissing"
        ELSE IF data = "good"
        THEN /\ d_reply' = "Data"
             /\ d_last' = "ReadGood"
             /\ UNCHANGED <<d_queue, d_read>>
        ELSE /\ d_read' = "corrupt"
             /\ d_reply' = "none"
             /\ d_last' = "ReadBad"
             /\ UNCHANGED d_queue
  /\ UNCHANGED <<d_dir, d_rc, d_now, d_ops>>
  /\ DiskOthers

\* read_block_internal once it holds the mutation lock: the file is renamed,
\* the hash is put to resync with no delay, the error is CorruptData
DiskMoveToCorrupted ==
  /\ d_read = "corrupt"
  /\ d_read' = "idle"
  /\ d_last' = "MoveToCorrupted"
  /\ IF BlockExists(d_dir)
     THEN /\ d_dir' = move_block_to_corrupted(d_dir)
          /\ d_queue' = d_queue \cup {d_now}
          /\ d_reply' = "CorruptData"
     ELSE /\ d_reply' = "IoError"
          /\ UNCHANGED <<d_dir, d_queue>>
  /\ UNCHANGED <<d_rc, d_now, d_ops>>
  /\ DiskOthers

\* handle(NeedBlockQuery(h)): NeedBlockReply(need_block(h))
DiskNeedBlockQuery ==
  /\ d_last # "off"
  /\ d_reply' = Bool(need_block(d_rc, d_dir))
  /\ d_last' = "NeedBlockQuery"
  /\ UNCHANGED <<d_dir, d_rc, d_queue, d_now, d_read, d_ops>>
  /\ DiskOthers

\* block_incref
DiskIncref ==
  /\ d_last # "off"
  /\ d_ops < MaxDiskOps
  /\ d_ops' = d_ops + 1
  /\ d_rc' = RcIncrement(d_rc)
  /\ d_queue' = IF is_zero(d_rc) THEN d_queue \cup {d_now + 2 * BLOCK_RW_TIMEOUT}
                                 ELSE d_queue
  /\ d_last' = "Incref"
  /\ UNCHANGED <<d_dir, d_now, d_read, d_reply>>
  /\ DiskOthers

\* block_decref
DiskDecref ==
  /\ d_last # "off"
  /\ d_ops < MaxDiskOps
  /\ d_ops' = d_ops + 1
  /\ is_nonzero(d_rc)
  /\ d_rc' = RcDecrement(d_rc, d_now)
  /\ d_queue' = IF d_rc'.kind = "Deletable"
                THEN d_queue \cup {d_now + BLOCK_GC_DELAY + 10000}
                ELSE d_queue
  /\ d_last' = "Decref"
  /\ UNCHANGED <<d_dir, d_now, d_read, d_reply>>
  /\ DiskOthers

\* resync_block of a block that is stored and no longer needed
DiskDeleteIfUnneeded ==
  /\ d_last # "off"
  /\ BlockExists(d_dir) /\ is_deletable(d_rc, d_now)
  /\ d_dir' = delete_if_unneeded(d_rc, d_dir, d_now)
  /\ d_rc' = ClearDeletedBlockRc(d_rc, d_now)
  /\ d_last' = "Delete"
  /\ UNCHANGED <<d_queue, d_now, d_read, d_reply, d_ops>>
  /\ DiskOthers

\* time passes, up to the end of the delay of a count at zero
DiskTick ==
  /\ d_last # "off"
  /\ d_ops < MaxDiskOps
  /\ d_ops' = d_ops + 1
  /\ d_now' = IF d_rc.kind = "Deletable" /\ d_rc.at_time >= d_now
              THEN d_rc.at_time + 1
              ELSE d_now + TickStep
  /\ d_last' = "Tick"
  /\ UNCHANGED <<d_dir, d_rc, d_queue, d_read, d_reply>>
  /\ DiskOthers

DNext ==
  \/ \E compressed \in BOOLEAN, outcome \in {"ok", "tmp_left", "plain_left"} :
       DiskPutBlock(compressed, outcome)
  \/ \E form \in {"plain", "zst"} : DiskBitFlip(form)
  \/ DiskReadBlock
  \/ DiskMoveToCorrupted
  \/ DiskNeedBlockQuery
  \/ DiskIncref
  \/ DiskDecref
  \/ DiskDeleteIfUnneeded
  \/ DiskTick

SpecDisk == DInit /\ [][DNext]_vars

(***************************************************************************)
(* resync_iter and the ErrorCounter of one hash: the retries of a resync   *)
(* that keeps failing                                                      *)
(***************************************************************************)
MaxFailures == 12
MaxEnqueues == 2

NextErrorCounterFlat(ec, t) == ErrorCounterNew(t)
\* the k-th error in a row, counted at the time t
NextErrorCounter(ec, t) == IF ec.some THEN add1(ec, t) ELSE ErrorCounterNew(t)

EInit ==
  /\ e_now = 0
  /\ e_queue = {0}
  /\ e_errors = NoErrors
  /\ e_pc = "idle"
  /\ e_entry = 0
  /\ e_iter_now = 0
  /\ e_last = [some |-> FALSE, k |-> 0, iter_now |-> 0, at |-> 0, requeued |-> 0]
  /\ e_fails = 0
  /\ e_adds = 0
  /\ e_req = {0}
  /\ StIdle /\ ObjIdle /\ MgIdle /\ MIdle /\ WIdle /\ BIdle /\ RIdle /\ CIdle /\ QIdle /\ DIdle /\ LIdle /\ YIdle /\ HIdle /\ UIdle /\ TIdle /\ XIdle /\ AIdle /\ NIdle /\ FIdle /\ KIdle /\ IIdle /\ GIdle /\ ZIdle

RetryOthers ==
  UNCHANGED <<stVars, objVars, mgVars, mVars, wVars, bVars, rVars, cVars, qVars, dVars, lVars, yVars, hVars, uVars, tVars, xVars, aVars, nVars, fVars, kVars, iVars, gVars, zVars>>

\* resync_iter up to the call of resync_block: the first entry of the queue is
\* due; an error counter whose next_try is in the future moves the entry
RetryIter ==
  /\ e_pc = "idle"
  /\ e_queue # {}
  /\ LET time_msec == SetMin(e_queue) IN
     /\ e_now >= time_msec
     /\ IF e_errors.some /\ e_now < next_try(e_errors)
        THEN /\ e_queue' = (e_queue \cup {next_try(e_errors)}) \ {time_msec}
             /\ UNCHANGED <<e_pc, e_entry, e_iter_now, e_req>>
        ELSE /\ e_pc' = "resync_block"
             /\ e_entry' = time_msec
             /\ e_iter_now' = e_now
             /\ e_req' = {}
             /\ UNCHANGED e_queue
  /\ UNCHANGED <<e_now, e_errors, e_last, e_fails, e_adds>>
  /\ RetryOthers

\* resync_block returned Err
RetryErr ==
  /\ e_pc = "resync_block"
  /\ e_fails < MaxFailures
  /\ e_fails' = e_fails + 1
  /\ LET err_counter == NextErrorCounter(e_errors, e_iter_now + 1) IN
     /\ e_errors' = err_counter
     /\ e_queue' = (e_queue \cup {next_try(err_counter)}) \ {e_entry}
     /\ e_last' = [some |-> TRUE, k |-> IF e_last.some THEN e_last.k + 1 ELSE 1,
                   iter_now |-> e_iter_now, at |-> e_now, requeued |-> next_try(err_counter)]
  /\ e_pc' = "idle"
  /\ UNCHANGED <<e_now, e_entry, e_iter_now, e_adds, e_req>>
  /\ RetryOthers

\* resync_block returned Ok
RetryOk ==
  /\ e_pc = "resync_block"
  /\ e_errors' = NoErrors
  /\ e_queue' = e_queue \ {e_entry}
  /\ e_last' = [e_last EXCEPT !.some = FALSE]
  /\ e_pc' = "idle"
  /\ UNCHANGED <<e_now, e_entry, e_iter_now, e_fails, e_adds, e_req>>
  /\ RetryOthers

\* put_to_resync by another caller: a corrupted read (no delay), a count that
\* left zero (2 * BLOCK_RW_TIMEOUT)
RetryEnqueue(delay) ==
  /\ e_pc # "off"
  /\ e_adds < MaxEnqueues
  /\ e_adds' = e_adds + 1
  /\ e_queue' = e_queue \cup {e_now + delay}
  /\ e_req' = e_req \cup {e_now + delay}
  /\ UNCHANGED <<e_now, e_errors, e_pc, e_entry, e_iter_now, e_last, e_fails>>
  /\ RetryOthers

\* time passes: while resync_block runs, and up to the first entry of the queue
RetryTick ==
  /\ e_pc # "off"
  /\ IF e_pc = "resync_block"
     THEN e_iter_now = e_now /\ e_now' = e_now + TickStep
     ELSE /\ e_queue # {}
          /\ SetMin(e_queue) > e_now
          /\ e_now' = SetMin(e_queue)
  /\ UNCHANGED <<e_queue, e_errors, e_pc, e_entry, e_iter_now, e_last, e_fails, e_adds, e_req>>
  /\ RetryOthers

ENext ==
  \/ RetryIter
  \/ RetryErr
  \/ RetryOk
  \/ \E delay \in {0, 2 * BLOCK_RW_TIMEOUT} : RetryEnqueue(delay)
  \/ RetryTick

SpecRetry == EInit /\ [][ENext]_vars

(***************************************************************************)
(* resync_loop: the worker of one node, for one hash, with the watch       *)
(* channel must_exit and the Notify resync_notify                          *)
(***************************************************************************)
MaxLoopOps == 1
MaxLoopFails == 1

\* the select! of an empty queue ends on resync_notify or on a change of
\* must_exit; the select! of an entry that is not due also ends at its time
WorkWaitEndsNotifyOnly == l_notified
WorkWaitEnds == l_notified \/ l_changed
TimeWaitEnds == l_now >= l_entry \/ l_notified \/ l_changed

LInit ==
  /\ l_pc = "test"
  /\ l_now = 0
  /\ l_queue \in {{}, {0}, {2 * BLOCK_RW_TIMEOUT}}
  /\ l_errors = NoErrors
  /\ l_entry = 0
  /\ l_iter_now = 0
  /\ l_rc = RcPresent(1)
  /\ l_file \in BOOLEAN
  /\ l_reachable = TRUE
  /\ l_must_exit = FALSE
  /\ l_changed = FALSE
  /\ l_notified = FALSE
  /\ l_fails = 0
  /\ l_ops = 0
  /\ StIdle /\ ObjIdle /\ MgIdle /\ MIdle /\ WIdle /\ BIdle /\ RIdle /\ CIdle /\ QIdle /\ DIdle /\ EIdle /\ YIdle /\ HIdle /\ UIdle /\ TIdle /\ XIdle /\ AIdle /\ NIdle /\ FIdle /\ KIdle /\ IIdle /\ GIdle /\ ZIdle

LoopOthers ==
  UNCHANGED <<stVars, objVars, mgVars, mVars, wVars, bVars, rVars, cVars, qVars, dVars, eVars, yVars, hVars, uVars, tVars, xVars, aVars, nVars, fVars, kVars, iVars, gVars, zVars>>

\* put_to_resync_at: the entry is inserted, then notify_waiters wakes the
\* worker if it is waiting on resync_notify; no permit is kept otherwise
LoopPutToResync(when) ==
  /\ l_queue' = l_queue \cup {when}
  /\ l_notified' = (l_notified \/ l_pc \in {"wait_work", "wait_time"})

\* resync_iter returned: the error counter and the queue after Ok and Err
LoopResyncOk ==
  /\ l_errors' = NoErrors
  /\ l_queue' = l_queue \ {l_entry}
  /\ l_pc' = "tranquilize"

LoopResyncErr ==
  LET err_counter == NextErrorCounter(l_errors, l_iter_now + 1) IN
  /\ l_errors' = err_counter
  /\ l_queue' = (l_queue \cup {next_try(err_counter)}) \ {l_entry}
  /\ l_pc' = "tranquilize"
  /\ l_fails' = l_fails + 1

\* while !*must_exit.borrow(), then resync_iter up to its first await
LoopIter ==
  /\ l_pc = "test"
  /\ IF l_must_exit
     THEN l_pc' = "done" /\ UNCHANGED <<l_queue, l_entry, l_iter_now>>
     ELSE IF l_queue = {}
     THEN l_pc' = "empty" /\ UNCHANGED <<l_queue, l_entry, l_iter_now>>
     ELSE LET time_msec == SetMin(l_queue) IN
          IF l_now < time_msec
          THEN l_pc' = "early" /\ l_entry' = time_msec /\ UNCHANGED <<l_queue, l_iter_now>>
          ELSE IF l_errors.some /\ l_now < next_try(l_errors)
          THEN /\ l_queue' = (l_queue \cup {next_try(l_errors)}) \ {time_msec}
               /\ l_pc' = "test"
               /\ UNCHANGED <<l_entry, l_iter_now>>
          ELSE /\ l_pc' = "resync_block"
               /\ l_entry' = time_msec
               /\ l_iter_now' = l_now
               /\ UNCHANGED l_queue
  /\ UNCHANGED <<l_now, l_errors, l_rc, l_file, l_reachable, l_must_exit, l_changed,
                 l_notified, l_fails, l_ops>>
  /\ LoopOthers

\* the select! is polled for the first time: the worker waits from here on
LoopSelect ==
  /\ l_pc \in {"empty", "early"}
  /\ l_pc' = IF l_pc = "empty" THEN "wait_work" ELSE "wait_time"
  /\ UNCHANGED <<l_now, l_queue, l_errors, l_entry, l_iter_now, l_rc, l_file,
                 l_reachable, l_must_exit, l_changed, l_notified, l_fails, l_ops>>
  /\ LoopOthers

\* one branch of the select! completes, resync_iter returns Ok(false)
LoopWake ==
  /\ \/ l_pc = "wait_work" /\ WorkWaitEnds
     \/ l_pc = "wait_time" /\ TimeWaitEnds
  /\ l_pc' = "test"
  /\ l_notified' = FALSE
  /\ l_changed' \in IF l_notified \/ (l_pc = "wait_time" /\ l_now >= l_entry)
                    THEN {l_changed, FALSE} ELSE {FALSE}
  /\ UNCHANGED <<l_now, l_queue, l_errors, l_entry, l_iter_now, l_rc, l_file,
                 l_reachable, l_must_exit, l_fails, l_ops>>
  /\ LoopOthers

\* resync_block up to its RPCs: a stored block that may be deleted is
\* offloaded and deleted, a needed block that is not stored is fetched
LoopResyncBlock ==
  /\ l_pc = "resync_block"
  /\ IF l_file /\ is_deletable(l_rc, l_now)
     THEN /\ l_file' = FALSE
          /\ l_rc' = ClearDeletedBlockRc(l_rc, l_now)
          /\ LoopResyncOk
     ELSE IF is_nonzero(l_rc) /\ ~l_file
     THEN l_pc' = "fetch" /\ UNCHANGED <<l_file, l_rc, l_errors, l_queue>>
     ELSE LoopResyncOk /\ UNCHANGED <<l_file, l_rc>>
  /\ UNCHANGED <<l_now, l_entry, l_iter_now, l_reachable, l_must_exit, l_changed,
                 l_notified, l_fails, l_ops>>
  /\ LoopOthers

\* rpc_get_raw_block answered by a node that holds the block, then write_block
LoopFetchOk ==
  /\ l_pc = "fetch"
  /\ l_reachable
  /\ l_file' = TRUE
  /\ LoopResyncOk
  /\ UNCHANGED <<l_now, l_entry, l_iter_now, l_rc, l_reachable, l_must_exit, l_changed,
                 l_notified, l_fails, l_ops>>
  /\ LoopOthers

\* rpc_get_raw_block fails on every node within BLOCK_RW_TIMEOUT; the nodes
\* are back after MaxLoopFails failed iterations
LoopFetchErr ==
  /\ l_pc = "fetch"
  /\ ~l_reachable
  /\ LoopResyncErr
  /\ l_reachable' = (l_fails' >= MaxLoopFails)
  /\ UNCHANGED <<l_now, l_entry, l_iter_now, l_rc, l_file, l_must_exit, l_changed,
                 l_notified, l_ops>>
  /\ LoopOthers

\* tranquilizer.tranquilize(BACKGROUND_TRANQUILITY) after Ok(true)
LoopTranquilize ==
  /\ l_pc = "tranquilize"
  /\ l_pc' = "test"
  /\ UNCHANGED <<l_now, l_queue, l_errors, l_entry, l_iter_now, l_rc, l_file,
                 l_reachable, l_must_exit, l_changed, l_notified, l_fails, l_ops>>
  /\ LoopOthers

\* the shutdown signal: the value of the watch channel changes to true
LoopMustExit ==
  /\ l_pc \notin {"off", "done"}
  /\ ~l_must_exit
  /\ l_must_exit' = TRUE
  /\ l_changed' = TRUE
  /\ UNCHANGED <<l_pc, l_now, l_queue, l_errors, l_entry, l_iter_now, l_rc, l_file,
                 l_reachable, l_notified, l_fails, l_ops>>
  /\ LoopOthers

\* block_incref and block_decref on another task
LoopIncref ==
  /\ l_pc # "off"
  /\ l_ops < MaxLoopOps
  /\ l_ops' = l_ops + 1
  /\ l_rc' = RcIncrement(l_rc)
  /\ IF is_zero(l_rc) THEN LoopPutToResync(l_now + 2 * BLOCK_RW_TIMEOUT)
                      ELSE UNCHANGED <<l_queue, l_notified>>
  /\ UNCHANGED <<l_pc, l_now, l_errors, l_entry, l_iter_now, l_file, l_reachable,
                 l_must_exit, l_changed, l_fails>>
  /\ LoopOthers

LoopDecref ==
  /\ l_pc # "off"
  /\ l_ops < MaxLoopOps
  /\ l_ops' = l_ops + 1
  /\ is_nonzero(l_rc)
  /\ l_rc' = RcDecrement(l_rc, l_now)
  /\ IF l_rc'.kind = "Deletable"
     THEN LoopPutToResync(l_now + BLOCK_GC_DELAY + 10000)
     ELSE UNCHANGED <<l_queue, l_notified>>
  /\ UNCHANGED <<l_pc, l_now, l_errors, l_entry, l_iter_now, l_file, l_reachable,
                 l_must_exit, l_changed, l_fails>>
  /\ LoopOthers

\* read_block_internal on another task: a missing block is put to resync in
\* 2 * BLOCK_RW_TIMEOUT, a corrupted one is renamed and put to resync now
LoopReadBlock(corrupted) ==
  /\ l_pc # "off"
  /\ l_ops < MaxLoopOps
  /\ l_ops' = l_ops + 1
  /\ l_file = corrupted
  /\ l_file' = FALSE
  /\ LoopPutToResync(IF corrupted THEN l_now ELSE l_now + 2 * BLOCK_RW_TIMEOUT)
  /\ UNCHANGED <<l_pc, l_now, l_errors, l_entry, l_iter_now, l_rc, l_reachable,
                 l_must_exit, l_changed, l_fails>>
  /\ LoopOthers

\* the nodes of read_nodes(hash) that hold the block stop answering
LoopNodesDown ==
  /\ l_pc # "off"
  /\ l_reachable
  /\ l_fails < MaxLoopFails
  /\ l_reachable' = FALSE
  /\ UNCHANGED <<l_pc, l_now, l_queue, l_errors, l_entry, l_iter_now, l_rc, l_file,
                 l_must_exit, l_changed, l_notified, l_fails, l_ops>>
  /\ LoopOthers

\* time passes, up to the next entry of the queue or the end of the delay of
\* a count at zero
LoopInstants ==
  {t \in l_queue : t > l_now}
    \cup (IF l_rc.kind = "Deletable" /\ l_rc.at_time >= l_now THEN {l_rc.at_time + 1} ELSE {})

LoopTick ==
  /\ l_pc # "off"
  /\ LoopInstants # {}
  /\ l_now' = SetMin(LoopInstants)
  /\ UNCHANGED <<l_pc, l_queue, l_errors, l_entry, l_iter_now, l_rc, l_file,
                 l_reachable, l_must_exit, l_changed, l_notified, l_fails, l_ops>>
  /\ LoopOthers

\* the steps of the worker, and everything else
LoopWorker ==
  \/ LoopIter
  \/ LoopSelect
  \/ LoopWake
  \/ LoopResyncBlock
  \/ LoopFetchOk
  \/ LoopFetchErr
  \/ LoopTranquilize

LNext ==
  \/ LoopWorker
  \/ LoopMustExit
  \/ LoopIncref
  \/ LoopDecref
  \/ \E corrupted \in BOOLEAN : LoopReadBlock(corrupted)
  \/ LoopNodesDown
  \/ LoopTick

\* the worker is a spawned task of the runtime and is scheduled again and
\* again; sleeps and RPCs with a timeout end; the clock advances
SpecLoop == LInit /\ [][LNext]_vars /\ WF_vars(LoopWorker) /\ WF_vars(LoopTick)

(***************************************************************************)
(* System::handle_advertise_cluster_layout: the ring of one node, updated  *)
(* by two callers (RPC handler, pull_cluster_layout, update_cluster_layout)*)
(***************************************************************************)
MaxLayoutVersion == 2

Callers == {"a", "b"}
ReplicationFactor == 3
ConfigFactors == {ReplicationFactor, ReplicationFactor + 1}

\* ClusterLayout: the committed part (version; check() passes or not), the
\* staged role changes, the replication factor
ClusterLayout(version, valid, staging, factor) ==
  [version |-> version, valid |-> valid, staging |-> staging,
   replication_factor |-> factor]

\* ClusterLayout::check
LayoutCheck(layout) == layout.valid

\* ClusterLayout::merge: a greater version replaces the layout, an equal
\* version merges the staged changes, a smaller one is ignored
LayoutMerge(layout, adv) ==
  IF adv.version > layout.version THEN adv
  ELSE IF adv.version = layout.version
  THEN [layout EXCEPT !.staging = layout.staging \cup adv.staging]
  ELSE layout

LayoutChanged(layout, adv) == LayoutMerge(layout, adv) # layout

\* `prev_layout_check && layout.check().is_err()`
DiscardedNever(prev, merged) == FALSE
Discarded(prev, merged) == LayoutCheck(prev) /\ ~LayoutCheck(merged)

\* `self.update_ring.lock().await` returns when no other caller holds it
LockAvailableAlways == TRUE
LockAvailable == y_lock = "free"

Advertisements(c) ==
  {ClusterLayout(v, ok, s, f) : v \in 0..MaxLayoutVersion, ok \in BOOLEAN,
                                s \in {{}, {c}}, f \in ConfigFactors}

YInit ==
  /\ y_ring \in {ClusterLayout(1, ok, {}, ReplicationFactor) : ok \in BOOLEAN}
  /\ y_lock = "free"
  /\ y_pc = [c \in Callers |-> "start"]
  /\ y_adv \in [Callers -> UNION {Advertisements(c) : c \in Callers}]
  /\ \A c \in Callers : y_adv[c] \in Advertisements(c)
  /\ y_layout = [c \in Callers |-> y_ring]
  /\ y_result = [c \in Callers |-> "none"]
  /\ y_sent = <<>>
  /\ y_broadcast = {}
  /\ y_saved = {}
  /\ StIdle /\ ObjIdle /\ MgIdle /\ MIdle /\ WIdle /\ BIdle /\ RIdle /\ CIdle /\ QIdle /\ DIdle /\ EIdle /\ LIdle /\ HIdle /\ UIdle /\ TIdle /\ XIdle /\ AIdle /\ NIdle /\ FIdle /\ KIdle /\ IIdle /\ GIdle /\ ZIdle

LayoutOthers ==
  UNCHANGED <<stVars, objVars, mgVars, mVars, wVars, bVars, rVars, cVars, qVars, dVars, eVars, lVars, hVars, uVars, tVars, xVars, aVars, nVars, fVars, kVars, iVars, gVars, zVars>>

\* the replication factor of the advertisement is compared, then the mutex
\* is taken and the layout of the ring is cloned
AdvertiseLock(c) ==
  /\ y_pc[c] = "start"
  /\ IF y_adv[c].replication_factor # ReplicationFactor
     THEN /\ y_pc' = [y_pc EXCEPT ![c] = "done"]
          /\ y_result' = [y_result EXCEPT ![c] = "Err factor"]
          /\ UNCHANGED <<y_lock, y_layout>>
     ELSE /\ LockAvailable
          /\ y_lock' = c
          /\ y_layout' = [y_layout EXCEPT ![c] = y_ring]
          /\ y_pc' = [y_pc EXCEPT ![c] = "locked"]
          /\ UNCHANGED y_result
  /\ UNCHANGED <<y_ring, y_adv, y_sent, y_broadcast, y_saved>>
  /\ LayoutOthers

\* merge, check, update_ring.send, drop of the guard, spawn of the broadcast
AdvertiseMerge(c) ==
  /\ y_pc[c] = "locked"
  /\ LET prev == y_layout[c]
         merged == LayoutMerge(prev, y_adv[c])
     IN IF ~LayoutChanged(prev, y_adv[c])
        THEN /\ y_pc' = [y_pc EXCEPT ![c] = "done"]
             /\ y_result' = [y_result EXCEPT ![c] = "Ok"]
             /\ UNCHANGED <<y_ring, y_sent, y_broadcast, y_layout>>
        ELSE IF Discarded(prev, merged)
        THEN /\ y_pc' = [y_pc EXCEPT ![c] = "done"]
             /\ y_result' = [y_result EXCEPT ![c] = "Err invalid"]
             /\ UNCHANGED <<y_ring, y_sent, y_broadcast, y_layout>>
        ELSE /\ y_ring' = merged
             /\ y_layout' = [y_layout EXCEPT ![c] = merged]
             /\ y_sent' = Append(y_sent, [from |-> prev, adv |-> y_adv[c], layout |-> merged])
             /\ y_broadcast' = y_broadcast \cup {merged}
             /\ y_pc' = [y_pc EXCEPT ![c] = "save"]
             /\ UNCHANGED y_result
  /\ y_lock' = IF y_lock = c THEN "free" ELSE y_lock
  /\ UNCHANGED <<y_adv, y_saved>>
  /\ LayoutOthers

\* save_cluster_layout: the layout of the ring as it is now is persisted
AdvertiseSave(c) ==
  /\ y_pc[c] = "save"
  /\ y_saved' = y_saved \cup {y_ring}
  /\ y_pc' = [y_pc EXCEPT ![c] = "done"]
  /\ y_result' = [y_result EXCEPT ![c] = "Ok"]
  /\ UNCHANGED <<y_ring, y_lock, y_adv, y_layout, y_sent, y_broadcast>>
  /\ LayoutOthers

YNext == \E c \in Callers : AdvertiseLock(c) \/ AdvertiseMerge(c) \/ AdvertiseSave(c)

SpecLayout == YInit /\ [][YNext]_vars

(***************************************************************************)
(* CopyPreconditionHeaders::check, called by handle_copy before any write  *)
(***************************************************************************)
MaxDate == 2

Etags == {"e1", "e2"}
EtagLists == SUBSET (Etags \cup {"*"})
Dates == 0..MaxDate

Unset == [set |-> FALSE, v |-> {}, t |-> 0]
EtagHeader(list) == [set |-> TRUE, v |-> list, t |-> 0]
DateHeader(t) == [set |-> TRUE, v |-> {}, t |-> t]
EtagHeaders == {Unset} \cup {EtagHeader(l) : l \in EtagLists}
DateHeaders == {Unset} \cup {DateHeader(t) : t \in Dates}

\* `im.iter().any(|x| x == etag || x == "*")`
AnyMatch(list, etag) == \E x \in list : x = etag \/ x = "*"

\* the match of check(): Ok(true), Ok(false) or the bad request
PreconditionIfMatchFirst(h, v_date, etag) ==
  IF h.if_match.set THEN Bool(AnyMatch(h.if_match.v, etag)) ELSE "true"

Precondition(h, v_date, etag) ==
  LET im == h.if_match
      ius == h.if_unmodified_since
      inm == h.if_none_match
      ims == h.if_modified_since
  IN IF im.set /\ ~inm.set /\ ~ims.set THEN Bool(AnyMatch(im.v, etag))
     ELSE IF ~im.set /\ ius.set /\ ~inm.set /\ ~ims.set THEN Bool(v_date <= ius.t)
     ELSE IF ~im.set /\ ~ius.set /\ inm.set /\ ims.set
     THEN Bool(~AnyMatch(inm.v, etag) /\ v_date > ims.t)
     ELSE IF ~im.set /\ ~ius.set /\ inm.set /\ ~ims.set THEN Bool(~AnyMatch(inm.v, etag))
     ELSE IF ~im.set /\ ~ius.set /\ ~inm.set /\ ims.set THEN Bool(v_date > ims.t)
     ELSE IF ~im.set /\ ~ius.set /\ ~inm.set /\ ~ims.set THEN "true"
     ELSE "bad request"

\* CopyPreconditionHeaders::check
PreconditionCheck(h, v_date, etag) ==
  LET ok == Precondition(h, v_date, etag) IN
  IF ok = "bad request" THEN "BadRequest"
  ELSE IF ok = "true" THEN "Ok" ELSE "PreconditionFailed"

HInit ==
  /\ h_headers \in [if_match : EtagHeaders, if_unmodified_since : DateHeaders,
                    if_none_match : EtagHeaders, if_modified_since : DateHeaders]
  /\ h_date \in Dates
  /\ h_etag \in Etags
  /\ h_result = "none"
  /\ h_written = FALSE
  /\ StIdle /\ ObjIdle /\ MgIdle /\ MIdle /\ WIdle /\ BIdle /\ RIdle /\ CIdle /\ QIdle /\ DIdle /\ EIdle /\ LIdle /\ YIdle /\ UIdle /\ TIdle /\ XIdle /\ AIdle /\ NIdle /\ FIdle /\ KIdle /\ IIdle /\ GIdle /\ ZIdle

HeaderOthers ==
  UNCHANGED <<stVars, objVars, mgVars, mVars, wVars, bVars, rVars, cVars, qVars, dVars, eVars, lVars, yVars, uVars, tVars, xVars, aVars, nVars, fVars, kVars, iVars, gVars, zVars>>

\* handle_copy: copy_precondition.check(source_version, etag)?
CopyCheckPrecondition ==
  /\ h_result = "none"
  /\ h_result' = PreconditionCheck(h_headers, h_date, h_etag)
  /\ UNCHANGED <<h_headers, h_date, h_etag, h_written>>
  /\ HeaderOthers

\* handle_copy after the check: the rows of the copy are written
CopyWriteRows ==
  /\ h_result = "Ok"
  /\ ~h_written
  /\ h_written' = TRUE
  /\ UNCHANGED <<h_headers, h_date, h_etag, h_result>>
  /\ HeaderOthers

HNext == CopyCheckPrecondition \/ CopyWriteRows

SpecPrecondition == HInit /\ [][HNext]_vars

(***************************************************************************)
(* UploadPartCopy: api/s3/copy.rs handle_upload_part_copy and Defragmenter  *)
(* A byte of the source object is named by its position in the object, so   *)
(* that the bytes of a buffer tell which source bytes it holds.             *)
(***************************************************************************)
MaxSrcBlocks == 3
MaxBlockLen == 3

\* blake2sum: the hash of a buffer, one hash per content
blake2sum(data) == [blake2 |-> data]

\* Option<Hash>
NoHash == [some |-> FALSE, h |-> blake2sum(<<>>)]
SomeHash(h) == [some |-> TRUE, h |-> h]

\* the bytes of the source block that starts at byte begin
BlockData(begin, size) == [j \in 1..size |-> begin + j - 1]

RECURSIVE SumSizes(_)
SumSizes(sizes) == IF sizes = <<>> THEN 0 ELSE Head(sizes) + SumSizes(Tail(sizes))

\* source_version.blocks.items(): VersionBlock { hash, size } in key order
SourceBlocks(sizes) ==
  [i \in 1..Len(sizes) |->
     [hash |-> blake2sum(BlockData(SumSizes(SubSeq(sizes, 1, i - 1)), sizes[i])),
      size |-> sizes[i]]]

\* Option<Range<usize>>
NoRange == [some |-> FALSE, b |-> 0, e |-> 0]
SomeRange(b, e) == [some |-> TRUE, b |-> b, e |-> e]

OverlapsTouching(block_begin, block_end, range_begin, range_end) ==
  block_begin <= range_end /\ block_end >= range_begin

\* if block_begin < range_end && block_end > range_begin
Overlaps(block_begin, block_end, range_begin, range_end) ==
  block_begin < range_end /\ block_end > range_begin

\* range_to_copy of one block that overlaps the range
RangeToCopy(block_begin, block_end, size, range_begin, range_end) ==
  LET subrange_begin == IF block_begin < range_begin
                        THEN SomeRange(range_begin - block_begin, 0) ELSE NoRange
      subrange_end == IF block_end > range_end
                      THEN SomeRange(0, range_end - block_begin) ELSE NoRange
  IN IF subrange_begin.some /\ subrange_end.some THEN SomeRange(subrange_begin.b, subrange_end.e)
     ELSE IF subrange_end.some THEN SomeRange(0, subrange_end.e)
     ELSE IF subrange_begin.some THEN SomeRange(subrange_begin.b, size)
     ELSE NoRange

\* the loop over source_version.blocks.items() that fills blocks_to_copy
RECURSIVE BlocksToCopy(_, _, _, _)
BlocksToCopy(blocks, current_offset, range_begin, range_end) ==
  IF blocks = <<>> THEN <<>>
  ELSE LET block == Head(blocks)
           block_begin == current_offset
           block_end == current_offset + block.size
           rest == BlocksToCopy(Tail(blocks), block_end, range_begin, range_end)
       IN IF Overlaps(block_begin, block_end, range_begin, range_end)
          THEN <<[hash |-> block.hash,
                  range_to_copy |-> RangeToCopy(block_begin, block_end, block.size,
                                                range_begin, range_end)]>> \o rest
          ELSE rest

\* data.slice(r)
Slice(data, r) == SubSeq(data, r.b + 1, r.e)

\* rpc_get_block: the data whose hash was asked
GetBlock(hash) == hash.blake2

\* source_blocks: one item (data, Option<Hash>) per element of blocks_to_copy
SourceStream(to_copy) ==
  [i \in 1..Len(to_copy) |->
     IF to_copy[i].range_to_copy.some
     THEN [data |-> Slice(GetBlock(to_copy[i].hash), to_copy[i].range_to_copy), hash |-> NoHash]
     ELSE [data |-> GetBlock(to_copy[i].hash), hash |-> SomeHash(to_copy[i].hash)]]

DefragExtendKeepHash(buffer, hash, next_block) ==
  [buffer |-> buffer \o next_block, hash |-> hash]

\* Defragmenter::next, last branch: self.buffer.extend(next_block); self.hash = None
DefragExtend(buffer, hash, next_block) ==
  [buffer |-> buffer \o next_block, hash |-> NoHash]

\* Defragmenter::next, the loop "fill buffer while we can"
RECURSIVE DefragFill(_, _, _, _)
DefragFill(buffer, hash, block_stream, block_size) ==
  IF block_stream = <<>> THEN [data |-> buffer, hash |-> hash, rest |-> <<>>]
  ELSE LET peeked == Head(block_stream) IN
       IF buffer = <<>>
       THEN DefragFill(peeked.data, peeked.hash, Tail(block_stream), block_size)
       ELSE IF Len(buffer) + Len(peeked.data) > block_size
       THEN [data |-> buffer, hash |-> hash, rest |-> block_stream]
       ELSE LET x == DefragExtend(buffer, hash, peeked.data)
            IN DefragFill(x.buffer, x.hash, Tail(block_stream), block_size)

\* Defragmenter::next: take_all() and take() leave an empty buffer and no hash
DefragNext(block_stream, block_size) == DefragFill(<<>>, NoHash, block_stream, block_size)

\* the ranges HttpRange::parse returns for an object of that size, or the
\* whole object without x-amz-copy-source-range
SourceRanges(size) ==
  {[start |-> a, length |-> n] : a \in 0..(size - 1), n \in 1..size} \cap
  {r \in [start : 0..size, length : 0..size] : r.start + r.length <= size}

SizeLists == UNION {[1..n -> 1..MaxBlockLen] : n \in 1..MaxSrcBlocks}

UInit ==
  /\ u_source \in SizeLists
  /\ u_range \in SourceRanges(SumSizes(u_source))
  /\ u_block_size \in {MaxBlockLen - 1, MaxBlockLen}
  /\ u_pc = "select"
  /\ u_to_copy = <<>>
  /\ u_stream = <<>>
  /\ u_next = [data |-> <<>>, hash |-> NoHash]
  /\ u_offset = 0
  /\ u_emitted = <<>>
  /\ u_version = {}
  /\ u_refs = {}
  /\ u_uploaded = {}
  /\ u_size = -1
  /\ StIdle /\ ObjIdle /\ MgIdle /\ MIdle /\ WIdle /\ BIdle /\ RIdle /\ CIdle /\ QIdle /\ DIdle /\ EIdle /\ LIdle /\ YIdle /\ HIdle /\ TIdle /\ XIdle /\ AIdle /\ NIdle /\ FIdle /\ KIdle /\ IIdle /\ GIdle /\ ZIdle

PartCopyOthers == UNCHANGED <<stVars, objVars, mgVars, mVars, wVars, bVars, rVars, cVars, qVars, dVars, eVars, lVars, yVars, hVars, tVars, xVars, aVars, nVars, fVars, kVars, iVars, gVars, zVars>>

\* handle_upload_part_copy up to the first defragmenter.next()
PartCopySelect ==
  /\ u_pc = "select"
  /\ LET to_copy == BlocksToCopy(SourceBlocks(u_source), 0, u_range.start,
                                 u_range.start + u_range.length)
         first == DefragNext(SourceStream(to_copy), u_block_size)
     IN /\ u_to_copy' = to_copy
        /\ u_next' = [data |-> first.data, hash |-> first.hash]
        /\ u_stream' = first.rest
        /\ u_emitted' = <<[data |-> first.data, hash |-> first.hash]>>
  /\ u_pc' = "copy"
  /\ UNCHANGED <<u_source, u_range, u_block_size, u_offset, u_version, u_refs, u_uploaded,
                 u_size>>
  /\ PartCopyOthers

\* one turn of the copy loop: the buffer is recorded in the Version and the
\* BlockRef tables, uploaded if it is not an existing block, the next one is read
PartCopyBlock ==
  /\ u_pc = "copy"
  /\ u_next.data # <<>>
  /\ LET must_upload == ~u_next.hash.some
         final_hash == IF u_next.hash.some THEN u_next.hash.h ELSE blake2sum(u_next.data)
         next_block == DefragNext(u_stream, u_block_size)
     IN /\ u_version' = u_version \cup
                          {[offset |-> u_offset, hash |-> final_hash, size |-> Len(u_next.data)]}
        /\ u_refs' = u_refs \cup {final_hash}
        /\ u_uploaded' = IF must_upload THEN u_uploaded \cup {final_hash} ELSE u_uploaded
        /\ u_offset' = u_offset + Len(u_next.data)
        /\ u_next' = [data |-> next_block.data, hash |-> next_block.hash]
        /\ u_stream' = next_block.rest
        /\ u_emitted' = Append(u_emitted, [data |-> next_block.data, hash |-> next_block.hash])
  /\ UNCHANGED <<u_source, u_range, u_block_size, u_pc, u_to_copy, u_size>>
  /\ PartCopyOthers

\* a failed rpc_get_block, rpc_put_block or insert ends the request with an error
PartCopyError ==
  /\ u_pc = "copy"
  /\ u_next.data # <<>>
  /\ u_pc' = "error"
  /\ UNCHANGED <<u_source, u_range, u_block_size, u_to_copy, u_stream, u_next, u_offset,
                 u_emitted, u_version, u_refs, u_uploaded, u_size>>
  /\ PartCopyOthers

\* the empty buffer ends the loop: assert_eq!(current_offset, source_range.length),
\* then the part's size is recorded in the MultipartUpload row
PartCopyFinish ==
  /\ u_pc = "copy"
  /\ u_next.data = <<>>
  /\ IF u_offset = u_range.length
     THEN u_pc' = "done" /\ u_size' = u_offset
     ELSE u_pc' = "panic" /\ u_size' = u_size
  /\ UNCHANGED <<u_source, u_range, u_block_size, u_to_copy, u_stream, u_next, u_offset,
                 u_emitted, u_version, u_refs, u_uploaded>>
  /\ PartCopyOthers

UNext == PartCopySelect \/ PartCopyBlock \/ PartCopyError \/ PartCopyFinish

SpecPartCopy == UInit /\ [][UNext]_vars

(***************************************************************************)
(* UploadPart: api/s3/multipart.rs handle_put_part and InterruptedCleanup   *)
(***************************************************************************)
MaxPartBlocks == 2

\* InterruptedCleanup(Option<InterruptedCleanupInner>)
NoCleanup == [some |-> FALSE, version_uuid |-> 0]
InterruptedCleanup(version_uuid) == [some |-> TRUE, version_uuid |-> version_uuid]

InterruptedCleanupCancelKeep(guard) == guard

\* InterruptedCleanup::cancel: drop(self.0.take())
InterruptedCleanupCancel(guard) == NoCleanup

\* Drop for InterruptedCleanup: the tasks it spawns
InterruptedCleanupDrop(guard) == IF guard.some THEN <<guard.version_uuid>> ELSE <<>>

\* what the request and the cluster can be for one call of handle_put_part
PutPartInputs ==
  [upload_id_ok : BOOLEAN, content_md5_ok : BOOLEAN, upload_exists : BOOLEAN,
   blocks : 0..MaxPartBlocks, checksum_ok : BOOLEAN, uuid : {1, 2}]

TInit ==
  /\ t_in \in PutPartInputs
  /\ t_pc = "start"
  /\ t_guard = NoCleanup
  /\ t_uuid = 0
  /\ t_mpu = {}
  /\ t_version = {}
  /\ t_spawned = <<>>
  /\ t_exit = "none"
  /\ StIdle /\ ObjIdle /\ MgIdle /\ MIdle /\ WIdle /\ BIdle /\ RIdle /\ CIdle /\ QIdle /\ DIdle /\ EIdle /\ LIdle /\ YIdle /\ HIdle /\ UIdle /\ XIdle /\ AIdle /\ NIdle /\ FIdle /\ KIdle /\ IIdle /\ GIdle /\ ZIdle

PutPartOthers == UNCHANGED <<stVars, objVars, mgVars, mVars, wVars, bVars, rVars, cVars, qVars, dVars, eVars, lVars, yVars, hVars, uVars, xVars, aVars, nVars, fVars, kVars, iVars, gVars, zVars>>

\* the request future ends (return or drop of the future): its locals are dropped
PutPartExit(exit, guard) ==
  /\ t_exit' = exit
  /\ t_pc' = "end"
  /\ t_spawned' = t_spawned \o InterruptedCleanupDrop(guard)
  /\ t_guard' = NoCleanup

\* handle_put_part up to try_join!(get_upload, chunker.next())
PutPartStart ==
  /\ t_pc = "start"
  /\ IF t_in.upload_id_ok /\ t_in.content_md5_ok
     THEN t_pc' = "join" /\ UNCHANGED <<t_guard, t_spawned, t_exit>>
     ELSE PutPartExit("error", t_guard)
  /\ UNCHANGED <<t_in, t_uuid, t_mpu, t_version>>
  /\ PutPartOthers

\* try_join! returns; first block, gen_uuid, the guard is created, the part is
\* put in mpu.parts
PutPartJoined ==
  /\ t_pc = "join"
  /\ IF t_in.upload_exists /\ t_in.blocks > 0
     THEN /\ t_uuid' = t_in.uuid
          /\ t_guard' = InterruptedCleanup(t_in.uuid)
          /\ t_pc' = "mpu_insert"
          /\ UNCHANGED <<t_spawned, t_exit>>
     ELSE PutPartExit("error", t_guard) /\ UNCHANGED t_uuid
  /\ UNCHANGED <<t_in, t_mpu, t_version>>
  /\ PutPartOthers

\* garage.mpu_table.insert(&mpu).await? with the part without etag
PutPartMpuInserted ==
  /\ t_pc = "mpu_insert"
  /\ t_mpu' = t_mpu \cup {[version |-> t_uuid, etag |-> FALSE]}
  /\ t_pc' = "version_insert"
  /\ UNCHANGED <<t_in, t_guard, t_uuid, t_version, t_spawned, t_exit>>
  /\ PutPartOthers

\* garage.version_table.insert(&version).await?
PutPartVersionInserted ==
  /\ t_pc = "version_insert"
  /\ t_version' = t_version \cup {[uuid |-> t_uuid, deleted |-> FALSE]}
  /\ t_pc' = "blocks"
  /\ UNCHANGED <<t_in, t_guard, t_uuid, t_mpu, t_spawned, t_exit>>
  /\ PutPartOthers

\* read_and_put_blocks(...).await? then ensure_checksum_matches(...)?
PutPartBlocksRead ==
  /\ t_pc = "blocks"
  /\ IF t_in.checksum_ok
     THEN t_pc' = "mpu_etag" /\ UNCHANGED <<t_guard, t_spawned, t_exit>>
     ELSE PutPartExit("error", t_guard)
  /\ UNCHANGED <<t_in, t_uuid, t_mpu, t_version>>
  /\ PutPartOthers

\* the last mpu_table.insert, interrupted_cleanup.cancel(), Ok(response)
PutPartEtagInserted ==
  /\ t_pc = "mpu_etag"
  /\ t_mpu' = t_mpu \cup {[version |-> t_uuid, etag |-> TRUE]}
  /\ PutPartExit("ok", InterruptedCleanupCancel(t_guard))
  /\ UNCHANGED <<t_in, t_uuid, t_version>>
  /\ PutPartOthers

\* one of the awaited calls returns an error, passed on by "?"
PutPartError ==
  /\ t_pc \in {"join", "mpu_insert", "version_insert", "blocks", "mpu_etag"}
  /\ PutPartExit("error", t_guard)
  /\ UNCHANGED <<t_in, t_uuid, t_mpu, t_version>>
  /\ PutPartOthers

\* the request future is dropped while it waits (the client went away)
PutPartCancelled ==
  /\ t_pc \in {"join", "mpu_insert", "version_insert", "blocks", "mpu_etag"}
  /\ PutPartExit("cancelled", t_guard)
  /\ UNCHANGED <<t_in, t_uuid, t_mpu, t_version>>
  /\ PutPartOthers

\* the task spawned by drop(): version_table.insert of the deleted Version; an
\* error is logged only
PutPartCleanupTask ==
  /\ \E k \in 1..Len(t_spawned) :
       /\ [uuid |-> t_spawned[k], deleted |-> TRUE] \notin t_version
       /\ t_version' = t_version \cup {[uuid |-> t_spawned[k], deleted |-> TRUE]}
  /\ UNCHANGED <<t_in, t_pc, t_guard, t_uuid, t_mpu, t_spawned, t_exit>>
  /\ PutPartOthers

TNext ==
  \/ PutPartStart \/ PutPartJoined \/ PutPartMpuInserted \/ PutPartVersionInserted
  \/ PutPartBlocksRead \/ PutPartEtagInserted \/ PutPartError \/ PutPartCancelled
  \/ PutPartCleanupTask

SpecPutPart == TInit /\ [][TNext]_vars

(***************************************************************************)
(* CompleteMultipartUpload: api/s3/multipart.rs                             *)
(***************************************************************************)
MaxPartNumber == 2
MaxUploads == 3

PartNumbers == 1..MaxPartNumber
PartEtags == {"e1", "e2"}

\* Option<String> and Option<u64> of MpuPart
NoEtag == [set |-> FALSE, v |-> ""]
SomeEtag(e) == [set |-> TRUE, v |-> e]
NoSize == [set |-> FALSE, v |-> 0]
SomeSize(n) == [set |-> TRUE, v |-> n]

\* one entry of mpu.parts: MpuPartKey { part_number, timestamp } and MpuPart
MpuPart(part_number, timestamp, version, etag, size) ==
  [part_number |-> part_number, timestamp |-> timestamp, version |-> version,
   etag |-> etag, size |-> size]

\* MultipartUpload::next_timestamp: above every timestamp stored for the number
NextTimestamp(parts, part_number) ==
  LET ts == {p.timestamp : p \in {q \in parts : q.part_number = part_number}}
  IN IF ts = {} THEN 1 ELSE 1 + (CHOOSE t \in ts : \A o \in ts : o <= t)

\* mpu.parts.items(): the entries in the order of their keys
RECURSIVE PartItems(_)
PartItems(parts) ==
  IF parts = {} THEN <<>>
  ELSE LET first == CHOOSE p \in parts : \A q \in parts :
                      \/ p.part_number < q.part_number
                      \/ p.part_number = q.part_number /\ p.timestamp <= q.timestamp
       IN <<first>> \o PartItems(parts \ {first})

RECURSIVE HavePartsFirst(_, _)
HavePartsFirst(items, have) ==
  IF items = <<>> THEN have
  ELSE LET pv == Head(items)
       IN HavePartsFirst(Tail(items),
            IF pv.part_number \in DOMAIN have THEN have
            ELSE [n \in DOMAIN have \cup {pv.part_number} |->
                    IF n = pv.part_number THEN pv ELSE have[n]])

\* for (pk, pv) in mpu.parts.items() { have_parts.insert(pk.part_number, pv) }
RECURSIVE HaveParts(_, _)
HaveParts(items, have) ==
  IF items = <<>> THEN have
  ELSE LET pv == Head(items)
       IN HaveParts(Tail(items),
            [n \in DOMAIN have \cup {pv.part_number} |->
               IF n = pv.part_number THEN pv ELSE have[n]])

\* body_list_of_parts ... .all(|(p1, p2)| p1.part_number < p2.part_number)
IncreasingParts(list) ==
  \A i \in 1..(Len(list) - 1) : list[i].part_number < list[i + 1].part_number

\* the match on have_parts.get(&req_part.part_number)
PartAccepted(have, req_part) ==
  /\ req_part.part_number \in DOMAIN have
  /\ have[req_part.part_number].etag = SomeEtag(req_part.etag)
  /\ have[req_part.part_number].size.set

\* handle_complete_multipart_upload from get_upload to the list of parts
CompleteChecks(exists, parts, list) ==
  IF ~exists THEN "NoSuchUpload"
  ELSE IF parts = {} THEN "BadRequest"
  ELSE IF list = <<>> THEN "EntityTooSmall"
  ELSE IF ~IncreasingParts(list) THEN "InvalidPartOrder"
  ELSE IF \E i \in 1..Len(list) : ~PartAccepted(HaveParts(PartItems(parts), <<>>), list[i])
       THEN "InvalidPart"
  ELSE "Ok"

\* body_list_of_parts as parse_complete_multipart_upload_body returns it
PartLists ==
  UNION {[1..n -> [part_number : PartNumbers, etag : PartEtags]] : n \in 0..MaxPartNumber}

XInit ==
  /\ x_exists \in BOOLEAN
  /\ x_mpu = {}
  /\ x_uploads = 0
  /\ x_pc = "idle"
  /\ x_list = <<>>
  /\ x_parts = <<>>
  /\ x_fetched = <<>>
  /\ x_result = "none"
  /\ x_rows = <<>>
  /\ StIdle /\ ObjIdle /\ MgIdle /\ MIdle /\ WIdle /\ BIdle /\ RIdle /\ CIdle /\ QIdle /\ DIdle /\ EIdle /\ LIdle /\ YIdle /\ HIdle /\ UIdle /\ TIdle /\ AIdle /\ NIdle /\ FIdle /\ KIdle /\ IIdle /\ GIdle /\ ZIdle

CompleteOthers == UNCHANGED <<stVars, objVars, mgVars, mVars, wVars, bVars, rVars, cVars, qVars, dVars, eVars, lVars, yVars, hVars, uVars, tVars, aVars, nVars, fVars, kVars, iVars, gVars, zVars>>

\* UploadPart or UploadPartCopy of a part number: a new entry with a fresh
\* timestamp and a new version uuid (named here by the key of the entry), left
\* without etag and size if the request did not finish
MpuUploadPart(part_number, etag) ==
  /\ x_pc = "idle"
  /\ x_exists
  /\ x_uploads < MaxUploads
  /\ x_uploads' = x_uploads + 1
  /\ x_mpu' = x_mpu \cup
       {MpuPart(part_number, NextTimestamp(x_mpu, part_number),
                <<part_number, NextTimestamp(x_mpu, part_number)>>, etag,
                IF etag.set THEN SomeSize(1) ELSE NoSize)}
  /\ UNCHANGED <<x_exists, x_pc, x_list, x_parts, x_fetched, x_result, x_rows>>
  /\ CompleteOthers

CompleteEnd(result) == x_pc' = "end" /\ x_result' = result

\* handle_complete_multipart_upload up to try_join_all of the part versions
CompleteStart(list) ==
  /\ x_pc = "idle"
  /\ x_list' = list
  /\ LET res == CompleteChecks(x_exists, x_mpu, list)
         have == HaveParts(PartItems(x_mpu), <<>>)
     IN IF res = "Ok"
        THEN /\ x_parts' = [i \in 1..Len(list) |-> have[list[i].part_number]]
             /\ x_pc' = "fetch"
             /\ UNCHANGED x_result
        ELSE CompleteEnd(res) /\ UNCHANGED x_parts
  /\ UNCHANGED <<x_exists, x_mpu, x_uploads, x_fetched, x_rows>>
  /\ CompleteOthers

FetchResultIgnoreDeleted(versions) ==
  IF \E i \in 1..Len(versions) : versions[i] = "missing" THEN "InternalError" ELSE "Ok"

\* try_join_all(version_table.get).await? with ok_or_internal_error, then the
\* test of part_version.deleted in the loop that builds final_version
FetchResult(versions) ==
  IF \E i \in 1..Len(versions) : versions[i] = "missing" THEN "InternalError"
  ELSE IF \E i \in 1..Len(versions) : versions[i] = "deleted" THEN "InvalidPart"
  ELSE "Ok"

\* the part versions are read; a missing one is an internal error, a deleted one
\* is an InvalidPart; otherwise final_version is built
CompleteFetched ==
  /\ x_pc = "fetch"
  /\ \E versions \in [1..Len(x_parts) -> {"live", "deleted", "missing"}] :
       /\ x_fetched' = versions
       /\ IF FetchResult(versions) = "Ok"
          THEN x_pc' = "version_insert" /\ UNCHANGED x_result
          ELSE CompleteEnd(FetchResult(versions))
  /\ UNCHANGED <<x_exists, x_mpu, x_uploads, x_list, x_parts, x_rows>>
  /\ CompleteOthers

\* garage.version_table.insert(&final_version).await?
CompleteVersionInserted ==
  /\ x_pc = "version_insert"
  /\ x_rows' = Append(x_rows, "Version")
  /\ x_pc' = "block_refs"
  /\ UNCHANGED <<x_exists, x_mpu, x_uploads, x_list, x_parts, x_fetched, x_result>>
  /\ CompleteOthers

\* garage.block_ref_table.insert_many(block_refs).await?, then check_quotas
CompleteBlockRefsInserted(quota_ok) ==
  /\ x_pc = "block_refs"
  /\ x_rows' = Append(x_rows, "BlockRef")
  /\ x_pc' = IF quota_ok THEN "object_insert" ELSE "abort_insert"
  /\ UNCHANGED <<x_exists, x_mpu, x_uploads, x_list, x_parts, x_fetched, x_result>>
  /\ CompleteOthers

\* check_quotas failed: the version is written as Aborted and the error returned
CompleteAbortInserted ==
  /\ x_pc = "abort_insert"
  /\ x_rows' = Append(x_rows, "Object Aborted")
  /\ CompleteEnd("QuotaError")
  /\ UNCHANGED <<x_exists, x_mpu, x_uploads, x_list, x_parts, x_fetched>>
  /\ CompleteOthers

\* the object version is written as Complete and the response is sent
CompleteObjectInserted ==
  /\ x_pc = "object_insert"
  /\ x_rows' = Append(x_rows, "Object Complete")
  /\ CompleteEnd("Ok")
  /\ UNCHANGED <<x_exists, x_mpu, x_uploads, x_list, x_parts, x_fetched>>
  /\ CompleteOthers

\* one of the inserts returns an error, passed on by "?"; insert_many may have
\* written some of its rows
CompleteInsertFailed(partial) ==
  /\ x_pc \in {"version_insert", "block_refs", "abort_insert", "object_insert"}
  /\ x_rows' = IF partial /\ x_pc = "block_refs" THEN Append(x_rows, "BlockRef") ELSE x_rows
  /\ CompleteEnd("Error")
  /\ UNCHANGED <<x_exists, x_mpu, x_uploads, x_list, x_parts, x_fetched>>
  /\ CompleteOthers

XNext ==
  \/ \E n \in PartNumbers, e \in {NoEtag} \cup {SomeEtag(v) : v \in PartEtags} :
       MpuUploadPart(n, e)
  \/ \E list \in PartLists : CompleteStart(list)
  \/ CompleteFetched
  \/ CompleteVersionInserted
  \/ \E quota_ok \in BOOLEAN : CompleteBlockRefsInserted(quota_ok)
  \/ CompleteAbortInserted
  \/ CompleteObjectInserted
  \/ \E partial \in BOOLEAN : CompleteInsertFailed(partial)

SpecComplete == XInit /\ [][XNext]_vars

(***************************************************************************)
(* AbortMultipartUpload: api/s3/multipart.rs handle_abort_multipart_upload  *)
(* and the updated hook of the object table on the node that stores the row *)
(***************************************************************************)
DeleteVersionOnRemovalOnly(new_v_id, new, v) == ~new_v_id.found

\* delete_version of ObjectTable::updated
DeleteVersion(new_v_id, new, v) ==
  IF ~new_v_id.found THEN TRUE
  ELSE new.versions[new_v_id.idx + 1].state = Aborted /\ v.state # Aborted

DeleteMpuOnRemovalOnly(new_v_id, new) == ~new_v_id.found

\* delete_mpu of ObjectTable::updated
DeleteMpu(new_v_id, new) ==
  IF ~new_v_id.found THEN TRUE
  ELSE new.versions[new_v_id.idx + 1].state.tag # "Uploading"

\* Version::new(uuid, backlink, true) and MultipartUpload::new(.., true) as queued
QueuedRow(table, uuid) == [table |-> table, uuid |-> uuid, deleted |-> TRUE]

\* ObjectTable::updated, step 2: the rows given to queue_insert, in order
RECURSIVE UpdatedFrom(_, _, _)
UpdatedFrom(old, new, i) ==
  IF i > Len(old.versions) THEN <<>>
  ELSE LET v == old.versions[i]
           new_v_id == BinarySearch(new.versions, cmp_key(v))
           version_rows == IF DeleteVersion(new_v_id, new, v)
                           THEN <<QueuedRow("version", v.uuid)>> ELSE <<>>
           mpu_rows == IF v.state.tag = "Uploading" /\ v.state.multipart
                          /\ DeleteMpu(new_v_id, new)
                       THEN <<QueuedRow("mpu", v.uuid)>> ELSE <<>>
       IN version_rows \o mpu_rows \o UpdatedFrom(old, new, i + 1)

ObjectUpdated(old, new) ==
  IF old.some /\ new.some THEN UpdatedFrom(old, new, 1) ELSE <<>>

AbortStates == {Uploading(TRUE, 1), Uploading(FALSE, 1), Complete(FirstBlock(1, 1)), Aborted}

\* the Object rows a node may hold for the key: none, or up to two versions
StoredObjects ==
  {None} \cup
  {Some(DropObsolete(ObjectNew(l))) :
     l \in {s \in UNION {[1..n -> {ObjectVersion(u, TimestampOf(u), st) :
                                     u \in Uuids, st \in AbortStates}] : n \in 1..2} :
              NewAccepts(s) /\ \A i, j \in 1..Len(s) : i # j => s[i].uuid # s[j].uuid}}

\* v.is_uploading(Some(true))
IsUploadingMultipart(v) == v.state.tag = "Uploading" /\ v.state.multipart

AInit ==
  /\ a_object \in StoredObjects
  /\ a_upload \in Uuids
  /\ a_pc = "start"
  /\ a_read = ObjectVersion(0, 0, Aborted)
  /\ a_before = None
  /\ a_tx = <<>>
  /\ a_vq = <<>>
  /\ a_mq = <<>>
  /\ a_result = "none"
  /\ StIdle /\ ObjIdle /\ MgIdle /\ MIdle /\ WIdle /\ BIdle /\ RIdle /\ CIdle /\ QIdle /\ DIdle /\ EIdle /\ LIdle /\ YIdle /\ HIdle /\ UIdle /\ TIdle /\ XIdle /\ NIdle /\ FIdle /\ KIdle /\ IIdle /\ GIdle /\ ZIdle

AbortOthers == UNCHANGED <<stVars, objVars, mgVars, mVars, wVars, bVars, rVars, cVars, qVars, dVars, eVars, lVars, yVars, hVars, uVars, tVars, xVars, nVars, fVars, kVars, iVars, gVars, zVars>>

\* get_upload: the rows are read from a quorum of nodes; the version of the
\* upload is returned if it is_uploading(Some(true)), NoSuchUpload otherwise
AbortGetUpload(found) ==
  /\ a_pc = "start"
  /\ IF found
     THEN /\ a_read' = ObjectVersion(a_upload, TimestampOf(a_upload), Uploading(TRUE, 1))
          /\ a_pc' = "insert"
          /\ UNCHANGED a_result
     ELSE /\ a_pc' = "end"
          /\ a_result' = "NoSuchUpload"
          /\ UNCHANGED a_read
  /\ UNCHANGED <<a_object, a_upload, a_before, a_tx, a_vq, a_mq>>
  /\ AbortOthers

\* object_table.insert(&final_object) with the version set to Aborted: the
\* node merges the row into the one it stores and runs updated() in the same
\* transaction
AbortInsert ==
  /\ a_pc = "insert"
  /\ LET object_version == [a_read EXCEPT !.state = Aborted]
         final_object == ObjectNew(<<object_version>>)
         new == TableUpdate(a_object, final_object)
         tx == ObjectUpdated(a_object, new)
     IN /\ a_before' = a_object
        /\ a_object' = new
        /\ a_tx' = tx
        /\ a_vq' = a_vq \o SelectSeq(tx, LAMBDA r : r.table = "version")
        /\ a_mq' = a_mq \o SelectSeq(tx, LAMBDA r : r.table = "mpu")
  /\ a_pc' = "end"
  /\ a_result' = "Ok"
  /\ UNCHANGED <<a_upload, a_read>>
  /\ AbortOthers

\* the insert does not reach a quorum: the error is returned; this node has
\* not applied the row
AbortInsertFailed ==
  /\ a_pc = "insert"
  /\ a_pc' = "end"
  /\ a_result' = "Error"
  /\ UNCHANGED <<a_object, a_upload, a_read, a_before, a_tx, a_vq, a_mq>>
  /\ AbortOthers

ANext ==
  \/ \E found \in BOOLEAN : AbortGetUpload(found)
  \/ AbortInsert
  \/ AbortInsertFailed

SpecAbort == AInit /\ [][ANext]_vars

(***************************************************************************)
(* repair_versions: garage/repair/online.rs RepairVersionsWorker            *)
(* The Version rows of the node are those of one object key; a row is named *)
(* by its uuid, which is also its key in the store.                         *)
(***************************************************************************)
MaxRows == 3
MaxRepairErrors == 1

RowUuids == 1..MaxRows

\* the Object rows the node may read for the key: none, or up to two versions
RepairObjects ==
  {None} \cup
  {Some(DropObsolete(ObjectNew(l))) :
     l \in {s \in UNION {[1..n -> {ObjectVersion(u, TimestampOf(u), st) :
                                     u \in RowUuids, st \in AbortStates}] : n \in 1..2} :
              NewAccepts(s) /\ \A i, j \in 1..Len(s) : i # j => s[i].uuid # s[j].uuid}}

VersionExistsAnyState(o, uuid) ==
  /\ o.some
  /\ \E i \in 1..Len(o.versions) : o.versions[i].uuid = uuid

\* version_exists: Some(o) => o.versions().iter().any(..), None => false
VersionExists(o, uuid) ==
  /\ o.some
  /\ \E i \in 1..Len(o.versions) :
       o.versions[i].uuid = uuid /\ o.versions[i].state # Aborted

\* version_table.data.store.get_gt(&self.pos): the first key after pos, 0 for None
GetGt(table, pos) ==
  LET ks == {u \in DOMAIN table : u > pos /\ table[u] # "none"}
  IN IF ks = {} THEN 0 ELSE CHOOSE u \in ks : \A o \in ks : u <= o

\* the row of the Version table after the insert of Version::new(.., true)
MarkDeleted(table, uuid) == [table EXCEPT ![uuid] = "deleted"]

NInit ==
  /\ n_table \in [RowUuids -> {"none", "live", "deleted"}]
  /\ n_first = n_table
  /\ n_object \in RepairObjects
  /\ n_pos = 0
  /\ n_counter = 0
  /\ n_state = "Busy"
  /\ n_log = <<>>
  /\ n_errors = 0
  /\ StIdle /\ ObjIdle /\ MgIdle /\ MIdle /\ WIdle /\ BIdle /\ RIdle /\ CIdle /\ QIdle /\ DIdle /\ EIdle /\ LIdle /\ YIdle /\ HIdle /\ UIdle /\ TIdle /\ XIdle /\ AIdle /\ FIdle /\ KIdle /\ IIdle /\ GIdle /\ ZIdle

RepairOthers == UNCHANGED <<stVars, objVars, mgVars, mVars, wVars, bVars, rVars, cVars, qVars, dVars, eVars, lVars, yVars, hVars, uVars, tVars, xVars, aVars, fVars, kVars, iVars, gVars, zVars>>

\* one call of work() that returns Ok: Done after the last row, Busy after a row
RepairWork ==
  /\ n_state = "Busy"
  /\ LET next_pos == GetGt(n_table, n_pos) IN
     IF next_pos = 0
     THEN /\ n_state' = "Done"
          /\ UNCHANGED <<n_table, n_pos, n_counter, n_log>>
     ELSE LET deleted == n_table[next_pos] = "deleted"
              mark == ~deleted /\ ~VersionExists(n_object, next_pos)
          IN /\ n_table' = IF mark THEN MarkDeleted(n_table, next_pos) ELSE n_table
             /\ n_counter' = n_counter + 1
             /\ n_pos' = next_pos
             /\ n_log' = Append(n_log, [uuid |-> next_pos, deleted |-> deleted,
                                        object |-> n_object, ok |-> TRUE])
             /\ UNCHANGED n_state
  /\ UNCHANGED <<n_first, n_object, n_errors>>
  /\ RepairOthers

\* one call of work() that returns Err (get_gt, decode, object_table.get or
\* version_table.insert failed): pos and counter are not advanced and the
\* worker is called again; a failed insert may have reached this node
RepairWorkError(inserted) ==
  /\ n_state = "Busy"
  /\ n_errors < MaxRepairErrors
  /\ n_errors' = n_errors + 1
  /\ LET next_pos == GetGt(n_table, n_pos)
         mark == /\ next_pos # 0
                 /\ inserted
                 /\ n_table[next_pos] # "deleted"
                 /\ ~VersionExists(n_object, next_pos)
     IN /\ n_table' = IF mark THEN MarkDeleted(n_table, next_pos) ELSE n_table
        /\ n_log' = IF next_pos = 0 THEN n_log
                    ELSE Append(n_log, [uuid |-> next_pos,
                                        deleted |-> n_table[next_pos] = "deleted",
                                        object |-> n_object, ok |-> FALSE])
  /\ UNCHANGED <<n_first, n_object, n_pos, n_counter, n_state>>
  /\ RepairOthers

NNext ==
  \/ RepairWork
  \/ \E inserted \in BOOLEAN : RepairWorkError(inserted)

SpecRepair == NInit /\ [][NNext]_vars

(***************************************************************************)
(* repair_block_refs: garage/repair/online.rs RepairBlockrefsWorker         *)
(* A BlockRef row is named by the rank of its key (block, version) in the   *)
(* store; it points to one of two Version rows.                             *)
(***************************************************************************)
RefKeys == 1..MaxRows
RefVersionIds == {1, 2}

\* BlockRef { block, version, deleted } as stored under a key
BlockRefRow(state, version) == [state |-> state, version |-> version]

RefExistsUnlessMissing(version) == version # "deleted"

\* ref_exists: version.map(|v| !v.deleted.get()).unwrap_or(false)
RefExists(version) == IF version = "none" THEN FALSE ELSE version # "deleted"

\* block_ref_table.data.store.get_gt(&self.pos): the first key after pos, 0 for None
RefGetGt(table, pos) ==
  LET ks == {k \in DOMAIN table : k > pos /\ table[k].state # "none"}
  IN IF ks = {} THEN 0 ELSE CHOOSE k \in ks : \A o \in ks : k <= o

\* the stored row after the insert of BlockRef { .., deleted: true }
RefMarkDeleted(table, k) == [table EXCEPT ![k].state = "deleted"]

FInit ==
  /\ f_table \in [RefKeys -> {BlockRefRow(s, v) : s \in {"none", "live", "deleted"},
                                                   v \in RefVersionIds}]
  /\ \A k \in RefKeys : f_table[k].state = "none" => f_table[k].version = 1
  /\ f_first = f_table
  /\ f_version \in [RefVersionIds -> {"none", "live", "deleted"}]
  /\ f_pos = 0
  /\ f_counter = 0
  /\ f_state = "Busy"
  /\ f_log = <<>>
  /\ f_errors = 0
  /\ StIdle /\ ObjIdle /\ MgIdle /\ MIdle /\ WIdle /\ BIdle /\ RIdle /\ CIdle /\ QIdle /\ DIdle /\ EIdle /\ LIdle /\ YIdle /\ HIdle /\ UIdle /\ TIdle /\ XIdle /\ AIdle /\ NIdle /\ KIdle /\ IIdle /\ GIdle /\ ZIdle

RepairRefsOthers == UNCHANGED <<stVars, objVars, mgVars, mVars, wVars, bVars, rVars, cVars, qVars, dVars, eVars, lVars, yVars, hVars, uVars, tVars, xVars, aVars, nVars, kVars, iVars, gVars, zVars>>

\* one call of work() that returns Ok: Done after the last row, Busy after a row
RepairRefsWork ==
  /\ f_state = "Busy"
  /\ LET next_pos == RefGetGt(f_table, f_pos) IN
     IF next_pos = 0
     THEN /\ f_state' = "Done"
          /\ UNCHANGED <<f_table, f_pos, f_counter, f_log>>
     ELSE LET block_ref == f_table[next_pos]
              deleted == block_ref.state = "deleted"
              version == f_version[block_ref.version]
              mark == ~deleted /\ ~RefExists(version)
          IN /\ f_table' = IF mark THEN RefMarkDeleted(f_table, next_pos) ELSE f_table
             /\ f_counter' = f_counter + 1
             /\ f_pos' = next_pos
             /\ f_log' = Append(f_log, [key |-> next_pos, deleted |-> deleted,
                                        version |-> version, ok |-> TRUE])
             /\ UNCHANGED f_state
  /\ UNCHANGED <<f_first, f_version, f_errors>>
  /\ RepairRefsOthers

\* one call of work() that returns Err: pos and counter are not advanced and
\* the worker is called again; a failed insert may have reached this node
RepairRefsWorkError(inserted) ==
  /\ f_state = "Busy"
  /\ f_errors < MaxRepairErrors
  /\ f_errors' = f_errors + 1
  /\ LET next_pos == RefGetGt(f_table, f_pos) IN
     IF next_pos = 0 THEN UNCHANGED <<f_table, f_log>>
     ELSE LET block_ref == f_table[next_pos]
              version == f_version[block_ref.version]
              mark == inserted /\ block_ref.state # "deleted" /\ ~RefExists(version)
          IN /\ f_table' = IF mark THEN RefMarkDeleted(f_table, next_pos) ELSE f_table
             /\ f_log' = Append(f_log, [key |-> next_pos,
                                        deleted |-> block_ref.state = "deleted",
                                        version |-> version, ok |-> FALSE])
  /\ UNCHANGED <<f_first, f_version, f_pos, f_counter, f_state>>
  /\ RepairRefsOthers

FNext ==
  \/ RepairRefsWork
  \/ \E inserted \in BOOLEAN : RepairRefsWorkError(inserted)

SpecRepairRefs == FInit /\ [][FNext]_vars

(***************************************************************************)
(* The key table: model/key_table.rs, api/admin/key.rs                      *)
(* One access key id, stored on every node (full replication); the rows    *)
(* inserted for it by the admin handlers travel to the nodes in any order.  *)
(***************************************************************************)
MaxKeyOps == 1
MaxKeyTime == 2
KeyNodes == {1, 2}
KeyRequests == {1, 2}
KeySecrets == {1, 2}
KeyNames == {1, 2}

\* crdt::Lww<T>: a value with the timestamp of its last change
Lww(ts, v) == [ts |-> ts, v |-> v]

\* Lww::merge: the greater timestamp wins, the greater value on equal timestamps
LwwMerge(self, other) ==
  IF other.ts > self.ts THEN other
  ELSE IF other.ts = self.ts /\ other.v > self.v THEN other
  ELSE self

\* Lww::update: a timestamp greater than the one it replaces
LwwUpdate(self, v, t) == Lww(IF self.ts + 1 > t THEN self.ts + 1 ELSE t, v)

\* crdt::Map / crdt::LwwMap: per-key merge
MapMerge(self, other) ==
  [k \in DOMAIN self \cup DOMAIN other |->
     IF k \notin DOMAIN other THEN self[k]
     ELSE IF k \notin DOMAIN self THEN other[k]
     ELSE LwwMerge(self[k], other[k])]

\* KeyParams::new(secret_key, name)
KeyParams(secret_key, name, t) ==
  [secret_key |-> secret_key,
   name |-> Lww(t, name),
   allow_create_bucket |-> Lww(t, 0),
   authorized_buckets |-> <<>>,
   local_aliases |-> <<>>]

NoParams == KeyParams(0, 0, 0)

\* impl Crdt for KeyParams: secret_key is left as it is in self
KeyParamsMerge(self, o) ==
  [secret_key |-> self.secret_key,
   name |-> LwwMerge(self.name, o.name),
   allow_create_bucket |-> LwwMerge(self.allow_create_bucket, o.allow_create_bucket),
   authorized_buckets |-> MapMerge(self.authorized_buckets, o.authorized_buckets),
   local_aliases |-> MapMerge(self.local_aliases, o.local_aliases)]

\* Key { key_id, state: Deletable<KeyParams> } of the one key id; NoKey is
\* the absence of a row
NoKey == [state |-> "none", params |-> NoParams]
KeyDeleted == [state |-> "deleted", params |-> NoParams]
KeyPresent(params) == [state |-> "present", params |-> params]

\* Deletable::merge: Deleted absorbs Present, two Present merge their contents
DeletableMerge(self, other) ==
  IF self.state = "deleted" \/ other.state = "deleted" THEN KeyDeleted
  ELSE KeyPresent(KeyParamsMerge(self.params, other.params))

\* impl Crdt for Key
KeyMerge(self, other) == DeletableMerge(self, other)

\* the row a node stores after it receives Update(row)
KeyTableUpdate(old, update) == IF old = NoKey THEN update ELSE KeyMerge(old, update)

\* table.insert(row): applied on the local node, sent to the others
KeySend(node, row) == {[to |-> n, row |-> row] : n \in KeyNodes \ {node}}

KeyIdleReq == [pc |-> "idle", node |-> 0, secret |-> 0, name |-> 0, result |-> "none"]

KInit ==
  /\ k_table = [n \in KeyNodes |-> NoKey]
  /\ k_net = {}
  /\ k_req = [r \in KeyRequests |-> KeyIdleReq]
  /\ k_now = 1
  /\ k_ops = 0
  /\ StIdle /\ ObjIdle /\ MgIdle /\ MIdle /\ WIdle /\ BIdle /\ RIdle /\ CIdle /\ QIdle /\ DIdle /\ EIdle /\ LIdle /\ YIdle /\ HIdle /\ UIdle /\ TIdle /\ XIdle /\ AIdle /\ NIdle /\ FIdle /\ IIdle /\ GIdle /\ ZIdle

KeyOthers == UNCHANGED <<stVars, objVars, mgVars, mVars, wVars, bVars, rVars, cVars, qVars, dVars, eVars, lVars, yVars, hVars, uVars, tVars, xVars, aVars, nVars, fVars, iVars, gVars, zVars>>

\* the key id has never been used: a new random id is not one already known
KeyFresh ==
  /\ \A n \in KeyNodes : k_table[n] = NoKey
  /\ k_net = {}
  /\ \A r \in KeyRequests : k_req[r].pc = "idle"

\* handle_create_key: Key::new with a random id and secret, then insert
KeyCreate(node, secret, name) ==
  /\ KeyFresh
  /\ k_ops < MaxKeyOps
  /\ k_ops' = k_ops + 1
  /\ k_table' = [k_table EXCEPT ![node] = KeyPresent(KeyParams(secret, name, k_now))]
  /\ k_net' = k_net \cup KeySend(node, KeyPresent(KeyParams(secret, name, k_now)))
  /\ UNCHANGED <<k_req, k_now>>
  /\ KeyOthers

\* handle_import_key up to the answer of key_table.get; the requests are
\* numbered in the order of their arrival
KeyImportGet(r, node, secret, name) ==
  /\ k_req[r].pc = "idle"
  /\ \A q \in KeyRequests : q < r => k_req[q].pc # "idle"
  /\ LET prev_key == k_table[node] IN
     k_req' = [k_req EXCEPT ![r] =
                 IF prev_key # NoKey
                 THEN [pc |-> "done", node |-> node, secret |-> secret, name |-> name,
                       result |-> "KeyAlreadyExists"]
                 ELSE [pc |-> "insert", node |-> node, secret |-> secret, name |-> name,
                       result |-> "none"]]
  /\ UNCHANGED <<k_table, k_net, k_now, k_ops>>
  /\ KeyOthers

\* handle_import_key from Key::import to the answer
KeyImportInsert(r) ==
  /\ k_req[r].pc = "insert"
  /\ LET node == k_req[r].node
         imported_key == KeyPresent(KeyParams(k_req[r].secret, k_req[r].name, k_now))
     IN /\ k_table' = [k_table EXCEPT ![node] = KeyTableUpdate(k_table[node], imported_key)]
        /\ k_net' = k_net \cup KeySend(node, imported_key)
  /\ k_req' = [k_req EXCEPT ![r].pc = "done", ![r].result = "ok"]
  /\ UNCHANGED <<k_now, k_ops>>
  /\ KeyOthers

\* handle_update_key with a new name and allow.create_bucket
KeyUpdate(node, name) ==
  /\ k_table[node].state = "present"
  /\ k_ops < MaxKeyOps
  /\ k_ops' = k_ops + 1
  /\ LET key_state == k_table[node].params
         key == KeyPresent([key_state EXCEPT
                   !.name = LwwUpdate(key_state.name, name, k_now),
                   !.allow_create_bucket =
                      LwwUpdate(key_state.allow_create_bucket, 1, k_now)])
     IN /\ k_table' = [k_table EXCEPT ![node] = KeyTableUpdate(k_table[node], key)]
        /\ k_net' = k_net \cup KeySend(node, key)
  /\ UNCHANGED <<k_req, k_now>>
  /\ KeyOthers

\* handle_delete_key
KeyDelete(node) ==
  /\ k_table[node].state = "present"
  /\ k_ops < MaxKeyOps
  /\ k_ops' = k_ops + 1
  /\ k_table' = [k_table EXCEPT ![node] = KeyTableUpdate(k_table[node], KeyDeleted)]
  /\ k_net' = k_net \cup KeySend(node, KeyDeleted)
  /\ UNCHANGED <<k_req, k_now>>
  /\ KeyOthers

\* a node receives Update(row) and merges it into its row
KeyDeliver ==
  /\ \E m \in k_net :
       /\ k_table' = [k_table EXCEPT ![m.to] = KeyTableUpdate(k_table[m.to], m.row)]
       /\ k_net' = k_net \ {m}
  /\ UNCHANGED <<k_req, k_now, k_ops>>
  /\ KeyOthers

\* now_msec() advances
KeyTick ==
  /\ k_now < MaxKeyTime
  /\ k_now' = k_now + 1
  /\ UNCHANGED <<k_table, k_net, k_req, k_ops>>
  /\ KeyOthers

KNext ==
  \/ \E node \in KeyNodes, secret \in KeySecrets, name \in KeyNames :
       KeyCreate(node, secret, name)
  \/ \E r \in KeyRequests, node \in KeyNodes, secret \in KeySecrets, name \in KeyNames :
       KeyImportGet(r, node, secret, name)
  \/ \E r \in KeyRequests : KeyImportInsert(r)
  \/ \E node \in KeyNodes : KeyUpdate(node, 2)
  \/ \E node \in KeyNodes : KeyDelete(node)
  \/ KeyDeliver
  \/ KeyTick

SpecKey == KInit /\ [][KNext]_vars

(***************************************************************************)
(* Key::import: model/key_table.rs                                          *)
(* A string is a sequence of characters; "U+00E9" is a character that takes *)
(* two bytes in UTF-8, every other character of the alphabet takes one.     *)
(***************************************************************************)
KeyIdLen == 26
SecretKeyLen == 64
MaxLenDelta == 1

LowerHexChars == {"0", "a", "f"}
UpperHexChars == {"A", "F"}
ImportChars == LowerHexChars \cup UpperHexChars \cup {"g", "G", "K", "U+00E9"}

ByteWidth(ch) == IF ch = "U+00E9" THEN 2 ELSE 1

\* str::len: the length in bytes
RECURSIVE ByteLen(_)
ByteLen(s) == IF s = <<>> THEN 0 ELSE ByteWidth(Head(s)) + ByteLen(Tail(s))

\* str::is_char_boundary
IsCharBoundary(s, n) == \E j \in 0..Len(s) : ByteLen(SubSeq(s, 1, j)) = n

\* &s[..n] and &s[n..], n being a character boundary
StrTo(s, n) ==
  LET j == CHOOSE j \in 0..Len(s) : ByteLen(SubSeq(s, 1, j)) = n IN SubSeq(s, 1, j)
StrFrom(s, n) ==
  LET j == CHOOSE j \in 0..Len(s) : ByteLen(SubSeq(s, 1, j)) = n IN SubSeq(s, j + 1, Len(s))

\* hex::decode(s).is_err(): an odd number of bytes, or a byte that is not one
\* of 0-9, a-f, A-F
HexDecodeIsErr(s) ==
  \/ ByteLen(s) % 2 # 0
  \/ \E j \in 1..Len(s) : s[j] \notin LowerHexChars \cup UpperHexChars

ImportOk(key_id, secret_key) == [kind |-> "Ok", key_id |-> key_id, secret_key |-> secret_key]
ImportErr(which) == [kind |-> "Err", key_id |-> <<>>, secret_key |-> which]
ImportPanic == [kind |-> "panic", key_id |-> <<>>, secret_key |-> <<>>]

\* Key::import(key_id, secret_key, name)
KeyImport(key_id, secret_key) ==
  IF ByteLen(key_id) # KeyIdLen THEN ImportErr(<<"key ID">>)
  ELSE IF ~IsCharBoundary(key_id, 2) THEN ImportPanic
  ELSE IF StrTo(key_id, 2) # <<"G", "K">> THEN ImportErr(<<"key ID">>)
  ELSE IF HexDecodeIsErr(StrFrom(key_id, 2)) THEN ImportErr(<<"key ID">>)
  ELSE IF ByteLen(secret_key) # SecretKeyLen THEN ImportErr(<<"secret key">>)
  ELSE IF HexDecodeIsErr(secret_key) THEN ImportErr(<<"secret key">>)
  ELSE ImportOk(key_id, secret_key)

\* the strings tried: a well-formed one, cut or padded by up to MaxLenDelta
\* characters, with one of its characters replaced
Resize(s, n) == [j \in 1..n |-> IF j <= Len(s) THEN s[j] ELSE "0"]
Replace(s, p, ch) == [j \in 1..Len(s) |-> IF j = p THEN ch ELSE s[j]]
KeyIdBase == [j \in 1..KeyIdLen |-> IF j = 1 THEN "G" ELSE IF j = 2 THEN "K" ELSE "0"]
SecretKeyBase == [j \in 1..SecretKeyLen |-> "a"]
KeyIdInputs ==
  {Replace(Resize(KeyIdBase, n), p, ch) :
     n \in (KeyIdLen - MaxLenDelta)..(KeyIdLen + MaxLenDelta), p \in {1, 2, 3, KeyIdLen - 1},
     ch \in ImportChars}
SecretKeyInputs ==
  {Replace(Resize(SecretKeyBase, n), p, ch) :
     n \in (SecretKeyLen - MaxLenDelta)..(SecretKeyLen + MaxLenDelta), p \in {1, SecretKeyLen - 1},
     ch \in ImportChars}

IInit ==
  /\ i_key_id \in KeyIdInputs
  /\ i_secret_key \in SecretKeyInputs
  /\ i_pc = "call"
  /\ i_result = ImportErr(<<>>)
  /\ StIdle /\ ObjIdle /\ MgIdle /\ MIdle /\ WIdle /\ BIdle /\ RIdle /\ CIdle /\ QIdle /\ DIdle /\ EIdle /\ LIdle /\ YIdle /\ HIdle /\ UIdle /\ TIdle /\ XIdle /\ AIdle /\ NIdle /\ FIdle /\ KIdle /\ GIdle /\ ZIdle

ImportOthers == UNCHANGED <<stVars, objVars, mgVars, mVars, wVars, bVars, rVars, cVars, qVars, dVars, eVars, lVars, yVars, hVars, uVars, tVars, xVars, aVars, nVars, fVars, kVars, gVars, zVars>>

\* one call of Key::import
ImportCall ==
  /\ i_pc = "call"
  /\ i_pc' = "done"
  /\ i_result' = KeyImport(i_key_id, i_secret_key)
  /\ UNCHANGED <<i_key_id, i_secret_key>>
  /\ ImportOthers

INext == ImportCall

SpecImport == IInit /\ [][INext]_vars

(***************************************************************************)
(* ObjectTable::updated on any update of a stored Object row                *)
(***************************************************************************)
\* the Object rows sent as updates: one or two versions of the key
ObjectUpdates == {o.versions : o \in StoredObjects \ {None}}

GInit ==
  /\ g_old = None
  /\ g_new \in StoredObjects
  /\ g_rows = <<>>
  /\ g_pc = "update"
  /\ StIdle /\ ObjIdle /\ MgIdle /\ MIdle /\ WIdle /\ BIdle /\ RIdle /\ CIdle /\ QIdle /\ DIdle /\ EIdle /\ LIdle /\ YIdle /\ HIdle /\ UIdle /\ TIdle /\ XIdle /\ AIdle /\ NIdle /\ FIdle /\ KIdle /\ IIdle /\ ZIdle

HookOthers == UNCHANGED <<stVars, objVars, mgVars, mVars, wVars, bVars, rVars, cVars, qVars, dVars, eVars, lVars, yVars, hVars, uVars, tVars, xVars, aVars, nVars, fVars, kVars, iVars, zVars>>

\* the node receives an update of the row: it stores the merge and runs
\* updated(old, new) in the same transaction
HookUpdate(update) ==
  /\ g_pc = "update"
  /\ LET new == TableUpdate(g_new, update)
     IN /\ g_old' = g_new
        /\ g_new' = new
        /\ g_rows' = ObjectUpdated(g_new, new)
  /\ g_pc' = "done"
  /\ HookOthers

GNext == \E update \in ObjectUpdates : HookUpdate(update)

SpecHook == GInit /\ [][GNext]_vars

(***************************************************************************)
(* get_upload and the requests on one upload id: api/s3/multipart.rs,       *)
(* api/s3/copy.rs, with the Object row of the key as one node stores it     *)
(***************************************************************************)
MaxUploadSteps == 3
UploadOps == {"UploadPart", "UploadPartCopy", "CompleteMultipartUpload", "AbortMultipartUpload"}

\* the versions of the row with the uuid of the upload
VersionsOfUpload(o, upload_id) ==
  {o.versions[j] : j \in {i \in 1..Len(o.versions) : o.versions[i].uuid = upload_id}}

\* get_upload: the Object row and the MultipartUpload row must exist and the
\* row must hold a version of that uuid that is_uploading(Some(true))
GetUpload(o, mpu, upload_id) ==
  IF ~o.some \/ ~mpu THEN "NoSuchUpload"
  ELSE IF \E v \in VersionsOfUpload(o, upload_id) : IsUploadingMultipart(v)
  THEN "Ok" ELSE "NoSuchUpload"

\* the state of the version of the upload that a read of the row sees
StateRead(o, upload_id) ==
  IF VersionsOfUpload(o, upload_id) = {} THEN "absent"
  ELSE (CHOOSE v \in VersionsOfUpload(o, upload_id) : TRUE).state.tag

\* the tables a request writes to once get_upload has returned Ok, in order
UploadWrites(op) ==
  CASE op = "UploadPart" -> <<"mpu", "version", "block_ref", "mpu">>
    [] op = "UploadPartCopy" -> <<"mpu", "version", "block_ref", "mpu">>
    [] op = "CompleteMultipartUpload" -> <<"version", "block_ref", "object">>
    [] op = "AbortMultipartUpload" -> <<"object">>

\* the Object row inserted by a request that completes or aborts the upload
UploadFinalObject(op, upload_id) ==
  ObjectNew(<<ObjectVersion(upload_id, TimestampOf(upload_id),
                            IF op = "AbortMultipartUpload" THEN Aborted
                            ELSE Complete(FirstBlock(1, 1)))>>)

NoRequest == [op |-> "none", read |-> "unread", result |-> "none", writes |-> <<>>]

\* the uploads of the key and the states of their versions (all multipart)
UploadUuids == {1, 2, 3}
UploadStates == {Uploading(TRUE, 1), Complete(FirstBlock(1, 1)), Aborted}

\* the Object rows a node may hold for the key: none, or up to two versions
UploadObjects ==
  {None} \cup
  {Some(DropObsolete(ObjectNew(l))) :
     l \in {s \in UNION {[1..n -> {ObjectVersion(u, TimestampOf(u), st) :
                                     u \in UploadUuids, st \in UploadStates}] : n \in 1..2} :
              NewAccepts(s) /\ \A i, j \in 1..Len(s) : i # j => s[i].uuid # s[j].uuid}}

\* the rows received from other nodes
UploadUpdates == {o.versions : o \in UploadObjects \ {None}}

ZInit ==
  /\ z_object \in UploadObjects
  /\ z_mpu \in BOOLEAN
  /\ z_upload \in {1, 2}
  /\ z_done = (StateRead(z_object, z_upload) \in {"Complete", "Aborted"})
  /\ z_req = NoRequest
  /\ z_last = NoRequest
  /\ z_steps = 0
  /\ StIdle /\ ObjIdle /\ MgIdle /\ MIdle /\ WIdle /\ BIdle /\ RIdle /\ CIdle /\ QIdle /\ DIdle /\ EIdle /\ LIdle /\ YIdle /\ HIdle /\ UIdle /\ TIdle /\ XIdle /\ AIdle /\ NIdle /\ FIdle /\ KIdle /\ IIdle /\ GIdle

UploadOthers == UNCHANGED <<stVars, objVars, mgVars, mVars, wVars, bVars, rVars, cVars, qVars, dVars, eVars, lVars, yVars, hVars, uVars, tVars, xVars, aVars, nVars, fVars, kVars, iVars, gVars>>

\* the version of the upload has been Complete or Aborted in the row
UploadDone(o) == z_done \/ StateRead(o, z_upload) \in {"Complete", "Aborted"}

\* the node receives an update of the Object row and merges it into its row
UploadMerge(update) ==
  /\ z_steps < MaxUploadSteps
  /\ z_steps' = z_steps + 1
  /\ z_object' = TableUpdate(z_object, update)
  /\ z_done' = UploadDone(z_object')
  /\ UNCHANGED <<z_mpu, z_upload, z_req, z_last>>
  /\ UploadOthers

\* a request on the upload id up to the answer of get_upload; in UploadPart
\* and UploadPartCopy get_upload is joined with the read of the first block or
\* of the copy source, whose error ends the request before get_upload answers
UploadGet(op, joined_error) ==
  /\ z_req.op = "none"
  /\ IF joined_error /\ op \in {"UploadPart", "UploadPartCopy"}
     THEN /\ z_last' = [op |-> op, read |-> "unread", result |-> "OtherError",
                        writes |-> <<>>]
          /\ UNCHANGED z_req
     ELSE IF GetUpload(z_object, z_mpu, z_upload) = "Ok"
     THEN /\ z_req' = [op |-> op, read |-> StateRead(z_object, z_upload),
                       result |-> "none", writes |-> <<>>]
          /\ UNCHANGED z_last
     ELSE /\ z_last' = [op |-> op, read |-> StateRead(z_object, z_upload),
                        result |-> "NoSuchUpload", writes |-> <<>>]
          /\ UNCHANGED z_req
  /\ UNCHANGED <<z_object, z_mpu, z_upload, z_done, z_steps>>
  /\ UploadOthers

\* the rest of the request: its inserts, the Object row being the last
UploadWrite ==
  /\ z_req.op # "none"
  /\ z_last' = [z_req EXCEPT !.result = "Ok", !.writes = UploadWrites(z_req.op)]
  /\ z_req' = NoRequest
  /\ z_object' = IF z_req.op \in {"CompleteMultipartUpload", "AbortMultipartUpload"}
                 THEN TableUpdate(z_object, UploadFinalObject(z_req.op, z_upload))
                 ELSE z_object
  /\ z_done' = UploadDone(z_object')
  /\ UNCHANGED <<z_mpu, z_upload, z_steps>>
  /\ UploadOthers

ZNext ==
  \/ \E update \in UploadUpdates : UploadMerge(update)
  \/ \E op \in UploadOps, joined_error \in BOOLEAN : UploadGet(op, joined_error)
  \/ UploadWrite

SpecUpload == ZInit /\ [][ZNext]_vars

(***************************************************************************)
(* Properties of the Object CRDT                                           *)
(***************************************************************************)
KeysOf(versions) == {cmp_key(versions[i]) : i \in 1..Len(versions)}

StateAt(versions, k) ==
  IF k \in KeysOf(versions)
  THEN versions[CHOOSE i \in 1..Len(versions) : cmp_key(versions[i]) = k].state
  ELSE NoState

StrictlySorted(versions) ==
  \A i \in 1..(Len(versions) - 1) :
    KeyCmp(cmp_key(versions[i]), cmp_key(versions[i + 1])) = "Less"

\* C1: Object::merge is commutative, associative and idempotent: merging rows
\* a, b, c in any order and grouping, and merging again a row that was already
\* merged, gives the same versions list.
C1_MergeLaws ==
  /\ Len(m_out) >= 4 => m_out[4] = m_out[2]
  /\ Len(m_out) >= 5 => m_out[5] = m_out[1]
  /\ Len(m_out) >= 6 => m_out[6] = m_out[1]

\* C2: ObjectVersionState::merge follows the table: Aborted on either side
\* gives Aborted; Uploading with Complete(d), in either position, gives
\* Complete(d); Complete(a) with Complete(b) gives Complete of the merged data,
\* which is the greater of a and b.
C2_StateMergeTable ==
  st_other # NoState =>
    /\ (st_before.tag = "Aborted" \/ st_other.tag = "Aborted") => st_self = Aborted
    /\ (st_before.tag = "Uploading" /\ st_other.tag = "Complete")
         => st_self = Complete(st_other.data)
    /\ (st_before.tag = "Complete" /\ st_other.tag = "Uploading")
         => st_self = Complete(st_before.data)
    /\ (st_before.tag = "Complete" /\ st_other.tag = "Complete")
         => /\ st_self.tag = "Complete"
            /\ st_self.data \in {st_before.data, st_other.data}
            /\ ~DataGreater(st_before.data, st_self.data)
            /\ ~DataGreater(st_other.data, st_self.data)

C2_Witness ==
  /\ st_before.tag = "Complete"
  /\ st_other.tag = "Complete"
  /\ DataGreater(st_other.data, st_before.data)
  /\ st_self = Complete(st_other.data)

\* C3: after any sequence of Object::new, add_version and merge, the versions
\* list is strictly increasing by (timestamp, uuid).
C3_VersionsSorted == StrictlySorted(object)

C3_Witness ==
  /\ obj_op = "merge"
  /\ Len(object) = 3

\* state of version k after the first loop of the last merge, by the merge table
MergedTag(k) ==
  LET s == StateAt(mg_self, k).tag
      o == StateAt(mg_other, k).tag
  IN IF s = "Aborted" \/ o = "Aborted" THEN "Aborted"
     ELSE IF s = "Complete" \/ o = "Complete" THEN "Complete"
     ELSE "Uploading"

MergedKeys == KeysOf(mg_self) \cup KeysOf(mg_other)
MergedCompleteKeys == {k \in MergedKeys : MergedTag(k) = "Complete"}

\* C4: after Object::merge, if the merged list holds a Complete version, the
\* last Complete one is at index 0, it is the only Complete one, every version
\* ordered before it is gone and every later one is kept and is Uploading or
\* Aborted; if no version is Complete, no version is removed.
C4_MergeDropsObsolete ==
  mg_done =>
    IF MergedCompleteKeys # {}
    THEN LET last == CHOOSE k \in MergedCompleteKeys :
                       \A k2 \in MergedCompleteKeys : KeyCmp(k2, k) # "Greater"
         IN /\ Len(mg_result) >= 1
            /\ cmp_key(mg_result[1]) = last
            /\ is_complete(mg_result[1])
            /\ \A i \in 2..Len(mg_result) :
                 mg_result[i].state.tag \in {"Uploading", "Aborted"}
            /\ KeysOf(mg_result) = {k \in MergedKeys : KeyCmp(k, last) # "Less"}
            /\ Len(mg_result) = Cardinality(KeysOf(mg_result))
    ELSE /\ KeysOf(mg_result) = MergedKeys
         /\ Len(mg_result) = Cardinality(MergedKeys)

C4_Witness ==
  /\ mg_done
  /\ Len(mg_result) >= 2
  /\ is_complete(mg_result[1])
  /\ \E k \in KeysOf(mg_self) : k \notin KeysOf(mg_result)
  /\ \E k \in KeysOf(mg_other) : k \notin KeysOf(mg_result)

\* replica r has merged the Complete rows of both writers
MergedBoth(r) ==
  \A w \in Writers :
    /\ w_pc[w] \in {"complete", "done"}
    /\ [to |-> r, from |-> w, row |-> ObjectNew(<<WComplete(w)>>)] \notin w_net

GreaterWriter ==
  IF GreaterKey(WComplete(1), WComplete(2)) THEN 1 ELSE 2

CompleteVersions(versions) ==
  {i \in 1..Len(versions) : is_complete(versions[i])}

\* C5: two writers commit Complete versions of the same key with different
\* (timestamp, uuid): once a replica has merged both writes, in whichever
\* order, its Object holds exactly one Complete version, the one with the
\* greater (timestamp, uuid).
C5_GreaterCompleteWins ==
  \A r \in DOMAIN w_store :
    MergedBoth(r) =>
      /\ w_store[r].some
      /\ Cardinality(CompleteVersions(w_store[r].versions)) = 1
      /\ \E i \in CompleteVersions(w_store[r].versions) :
           w_store[r].versions[i] = WComplete(GreaterWriter)

\* every replica has merged both writes, and replica 1 received the Complete
\* row of the greater version before the Complete row of the lesser one
C5_Witness ==
  /\ w_net = {}
  /\ \A w \in DOMAIN w_pc : w_pc[w] = "done"
  /\ \A r \in DOMAIN w_store : MergedBoth(r)
  /\ w_first = GreaterWriter

(***************************************************************************)
(* Properties of the resync worker                                         *)
(***************************************************************************)
EveryQueryAnswered == \A n \in Peers : b_del.replies[n] \in {"true", "false"}
EveryNeederStored == \A n \in Peers : b_del.replies[n] = "true" => b_del.acks[n] = "ok"

\* C6: a block file is deleted only after every other node of
\* write_nodes answered the NeedBlockQuery and every node that answered true
\* acknowledged the PutBlock, and hence no node of the ring still requires the
\* block at the moment its file is deleted.
C6_NoNeederAtDeletion ==
  b_del.some => EveryQueryAnswered /\ EveryNeederStored /\ b_del.needing = {}

\* C6, the offload alone: a block file is deleted only in an iteration in
\* which every other node of write_nodes answered the NeedBlockQuery without
\* error and every node that answered true acknowledged the PutBlock.
C6_DeleteAfterOffload ==
  b_del.some => EveryQueryAnswered /\ EveryNeederStored

C6_Witness ==
  /\ b_del.some
  /\ \E n \in Peers : b_del.replies[n] = "true" /\ b_del.acks[n] = "ok"
  /\ \E n \in Peers : b_del.replies[n] = "false"
  /\ b_errors.some = FALSE

RcCount(rc) == IF rc.kind = "Present" THEN rc.count ELSE 0
LiveRefs == {v \in RefVersions : r_refs[v] = "live"}

\* C7: on a node, the reference count of a block equals the number of its
\* non-deleted BlockRef rows after every update (each transition into or out
\* of the non-deleted state raised or lowered it once), and it is never
\* negative.
C7_CountMatchesRefs ==
  r_refs # <<>> => RcCount(b_rc) = Cardinality(LiveRefs) /\ RcCount(b_rc) >= 0

C7_Witness ==
  /\ r_refs # <<>>
  /\ \E v, w \in RefVersions : r_refs[v] = "live" /\ r_refs[w] = "deleted"
                               /\ r_version[w] = "none"
  /\ b_rc = RcPresent(1)
  /\ Cardinality(b_queue) = 2

(***************************************************************************)
(* Properties of handle_copy                                               *)
(***************************************************************************)
LogCount(kind) == Cardinality({i \in 1..Len(c_log) : c_log[i] = kind})
LogBefore(first, second) ==
  \A i \in 1..Len(c_log) : c_log[i] = second => \E j \in 1..(i - 1) : c_log[j] = first

CompleteVisible ==
  /\ c_object.some
  /\ \E i \in 1..Len(c_object.versions) : c_object.versions[i] = dest_object_version

\* C9: handle_copy writes the Uploading Object row, then the empty Version
\* row, then the Version row with its blocks and the BlockRef rows, and the
\* Complete Object row last, after those inserts succeeded; whenever the
\* Complete version is visible, its Version row lists the blocks and every
\* BlockRef of the new version is present.
C9_CopyWriteOrder ==
  c_pc >= 0 =>
    /\ LogBefore("object_uploading", "version_empty")
    /\ LogBefore("version_empty", "version_blocks")
    /\ LogBefore("version_empty", "block_ref")
    /\ LogBefore("version_blocks", "object_complete")
    /\ LogCount("object_complete") > 0 => LogCount("block_ref") = MaxBlocks
    /\ CompleteVisible =>
         /\ c_version[c_ids.new] = Version(Blocks, FALSE)
         /\ \A b \in Blocks : c_refs[b][c_ids.new] = "live"

C9_Witness ==
  /\ c_pc = CopyDone
  /\ CompleteVisible
  /\ c_log[Len(c_log)] = "object_complete"
  /\ c_log[3] = "block_ref"

HoldsVersion(row, u) ==
  /\ row.some
  /\ \E i \in 1..Len(row.versions) :
       row.versions[i].uuid = u /\ row.versions[i].state # Aborted

NewestInRow == ~c_ids.same \/ GreaterKey(tmp_dest_object_version, SourceVersion)

LiveNodes == {n \in Replicas : q_live[n]}

\* C12: rpc_put_block sends PutBlock to every node of write_nodes and returns
\* Ok iff at least write_quorum of them acknowledge; with write_quorum - 1
\* live nodes it returns the quorum error at the latest when the timeout
\* BLOCK_RW_TIMEOUT expires.
C12_PutQuorum ==
  q_result \in {"pending", "Ok", "Err"} =>
    /\ \A n \in Replicas : q_resp[n] # "none"
    /\ q_result = "Ok" <=> Cardinality(Acked(q_resp)) >= WriteQuorum
    /\ q_now > q_t0 + BLOCK_RW_TIMEOUT => q_result # "pending"
    /\ Cardinality(LiveNodes) = WriteQuorum - 1 =>
         /\ q_result # "Ok"
         /\ q_result = "Err" => q_done_at <= q_t0 + BLOCK_RW_TIMEOUT

C12_Witness ==
  /\ Cardinality(LiveNodes) = WriteQuorum - 1
  /\ q_result = "Err"
  /\ q_done_at = q_t0 + BLOCK_RW_TIMEOUT
  /\ \E n \in Replicas : q_stored[n]

(***************************************************************************)
(* Properties of the reference count and the resync queue                  *)
(***************************************************************************)

\* C17: block_incref puts the hash in the resync queue at now + 2 *
\* BLOCK_RW_TIMEOUT exactly when the count goes from 0 to 1, block_decref puts
\* it there at now + BLOCK_GC_DELAY + 10 s exactly when the count drops to 0,
\* and the increments and decrements that do not cross zero leave the queue as
\* it is.
C17_EnqueueOnZeroCrossing ==
  [][/\ RcCount(b_rc') = RcCount(b_rc) + 1 =>
          b_queue' = IF RcCount(b_rc) = 0
                     THEN b_queue \cup {now + 2 * BLOCK_RW_TIMEOUT}
                     ELSE b_queue
     /\ RcCount(b_rc') = RcCount(b_rc) - 1 =>
          b_queue' = IF RcCount(b_rc') = 0
                     THEN b_queue \cup {now + BLOCK_GC_DELAY + 10000}
                     ELSE b_queue]_vars

C17_Witness ==
  /\ b_rc.kind = "Deletable"
  /\ b_zero_at = now
  /\ now > 0
  /\ (now + BLOCK_GC_DELAY + 10000) \in b_queue

(***************************************************************************)
(* Properties of the data directory                                        *)
(***************************************************************************)
BothForms(dir) == dir.plain # "none" /\ dir.zst # "none"
PutBlockHandlers == {"PutBlockPlain", "PutBlockCompressed"}

\* C13: once a read has found contents that do not hash to the hash, the file
\* is renamed with a .corrupted suffix so that no block exists any more at the
\* normal path, the hash is in the resync queue with the time now, and the
\* error is CorruptData.
C13_NoBlockAfterCorruption ==
  d_last = "MoveToCorrupted" =>
    /\ d_reply = "CorruptData"
    /\ ~BlockExists(d_dir)
    /\ d_dir.corrupted # {}
    /\ d_now \in d_queue

\* C13, with the form that is renamed: the .zst form when there is one,
\* otherwise the plain form, so that a plain form beside a corrupted .zst form
\* stays in place; a file that is gone when the lock is held gives the I/O
\* error and nothing is put in the queue.
C13_CorruptedFormRenamed ==
  d_last = "MoveToCorrupted" =>
    IF d_reply = "CorruptData"
    THEN /\ d_dir.zst = "none"
         /\ d_dir.plain # "none" => "zst.corrupted" \in d_dir.corrupted
         /\ d_dir.corrupted # {}
         /\ d_now \in d_queue
    ELSE d_reply = "IoError" /\ ~BlockExists(d_dir)

C13_Witness ==
  /\ d_last = "MoveToCorrupted"
  /\ d_reply = "CorruptData"
  /\ d_dir.plain = "none"
  /\ d_dir.corrupted = {"corrupted"}

\* C14: a PutBlock received again leaves the data directory as the first one
\* left it, and a PutBlock for a hash stored in the same form or in compressed
\* form returns Ok without writing a file.
C14_PutBlockIdempotent ==
  d_last # "off" =>
    \A compressed \in BOOLEAN :
      LET once == write_block(d_dir, compressed, "ok") IN
      /\ once.res = "Ok"
      /\ \A outcome \in {"ok", "tmp_left", "plain_left"} :
           write_block(once.dir, compressed, outcome) = once
      /\ (d_dir.zst # "none" \/ (d_dir.plain # "none" /\ ~compressed)) =>
           once.dir = d_dir

C14_Witness ==
  /\ d_last = "PutBlockPlain"
  /\ d_reply = "Ok"
  /\ d_dir.zst = "good"
  /\ d_dir.writes = 1

\* C15: a block written while both its plain and its .zst form exist keeps
\* the .zst form only: the plain file is removed.
C15_PlainRemovedOnWrite ==
  [][(BothForms(d_dir) /\ d_last' \in PutBlockHandlers) =>
       (d_dir'.plain = "none" /\ d_dir'.zst # "none")]_vars

\* C16: a NeedBlockQuery is answered true exactly when the count is above
\* zero and neither the plain nor the .zst file exists.
C16_NeedBlockReply ==
  d_last = "NeedBlockQuery" =>
    /\ d_reply \in {"true", "false"}
    /\ d_reply = "true" <=>
         (RcCount(d_rc) > 0 /\ d_dir.plain = "none" /\ d_dir.zst = "none")

C16_Witness ==
  /\ d_last = "NeedBlockQuery"
  /\ d_reply = "true"
  /\ d_dir.corrupted # {}

(***************************************************************************)
(* Properties of the retries of the resync                                 *)
(***************************************************************************)
RECURSIVE Doubled(_, _)
Doubled(x, n) == IF n = 0 THEN x ELSE Doubled(2 * x, n - 1)

\* RESYNC_RETRY_DELAY * 2^min(k-1, 10)
BackoffDelay(k) == Doubled(RESYNC_RETRY_DELAY, IF k - 1 < 10 THEN k - 1 ELSE 10)

NeededAndMissing ==
  /\ l_queue # {}
  /\ is_nonzero(l_rc)
  /\ ~l_file
  /\ l_reachable
  /\ ~l_must_exit

NoLongerExpected == is_zero(l_rc) \/ ~l_reachable \/ l_must_exit

\* the worker waits on resync_notify for an entry that is already in the queue
AsleepWithWork == l_pc = "wait_work" /\ l_queue # {} /\ ~l_notified

\* C19: a hash that is in the resync queue, with a count above zero, no local
\* file and a reachable node that holds the block, is eventually fetched and
\* written locally, as long as the count stays above zero, the node stays
\* reachable and the worker is not told to exit.
C19_EventuallyFetched == NeededAndMissing ~> (l_file \/ NoLongerExpected)

\* the same, except while the worker sleeps on an entry it was not woken for
FetchedUnlessAsleep == NeededAndMissing ~> (l_file \/ NoLongerExpected \/ AsleepWithWork)

\* C20: once must_exit is true the resync loop terminates, wherever it is in
\* its iteration: testing, waiting for work, waiting for the time of the first
\* entry, or running resync_block.
C20_LoopTerminates == l_must_exit ~> (l_pc = "done")

C20_Witness ==
  /\ l_pc = "done"
  /\ l_must_exit
  /\ ~l_changed

(***************************************************************************)
(* Properties of the cluster layout of the ring                            *)
(***************************************************************************)
\* C21: an advertisement whose merge would make check() fail while the
\* layout of the ring passes it is answered with an error: the ring, the
\* broadcasts and the persisted layouts stay as they are; a ring whose layout
\* passes check() keeps a layout that passes check().
C21_InvalidLayoutRejected ==
  [][/\ LayoutCheck(y_ring) => LayoutCheck(y_ring')
     /\ \A c \in Callers :
          (y_pc[c] = "locked" /\ y_pc'[c] # "locked" /\ LayoutCheck(y_layout[c])
             /\ ~LayoutCheck(LayoutMerge(y_layout[c], y_adv[c]))) =>
            /\ y_result'[c] = "Err invalid"
            /\ y_pc'[c] = "done"
            /\ UNCHANGED <<y_ring, y_sent, y_broadcast, y_saved>>]_vars

C21_Witness ==
  /\ LayoutCheck(y_ring)
  /\ \E c \in Callers : y_result[c] = "Err invalid"
  /\ \E c \in Callers : y_result[c] = "Ok" /\ y_ring.version = y_adv[c].version
                                        /\ y_adv[c].version > 1

\* C22: every layout sent on the watch channel is the merge of the layout
\* sent before it (the first one: of the layout the ring started with) with
\* an advertisement, versions never decrease, and the ring holds every
\* advertisement that was merged.
C22_UpdatesSerialized ==
  /\ \A i \in 1..Len(y_sent) :
       /\ y_sent[i].layout = LayoutMerge(y_sent[i].from, y_sent[i].adv)
       /\ y_sent[i].layout.version >= y_sent[i].from.version
       /\ i > 1 => y_sent[i].from = y_sent[i - 1].layout
  /\ y_sent # <<>> => y_ring = y_sent[Len(y_sent)].layout
  /\ \A i \in 1..Len(y_sent) : ~LayoutChanged(y_ring, y_sent[i].adv)

C22_Witness ==
  /\ Len(y_sent) = 2
  /\ y_sent[1].adv.staging # {}
  /\ y_sent[2].adv.staging # {}
  /\ y_ring.staging = Callers

(***************************************************************************)
(* Properties of the preconditions of a copy                               *)
(***************************************************************************)
IfMatchHolds == AnyMatch(h_headers.if_match.v, h_etag)
IfNoneMatchHolds == ~AnyMatch(h_headers.if_none_match.v, h_etag)
IfModifiedSinceHolds == h_date > h_headers.if_modified_since.t
IfUnmodifiedSinceHolds == h_date <= h_headers.if_unmodified_since.t
Outcome(holds) == IF holds THEN "Ok" ELSE "PreconditionFailed"

IfMatchCase ==
  /\ h_headers.if_match.set
  /\ ~h_headers.if_none_match.set /\ ~h_headers.if_modified_since.set
BothNegativeCase ==
  /\ h_headers.if_none_match.set /\ h_headers.if_modified_since.set
  /\ ~h_headers.if_match.set /\ ~h_headers.if_unmodified_since.set
HeadersSet ==
  {n \in {"if_match", "if_unmodified_since", "if_none_match", "if_modified_since"} :
     h_headers[n].set}

\* C23: with if-match (with or without if-unmodified-since) if-match alone
\* decides; with if-none-match and if-modified-since both must hold; every
\* other combination of the four headers is a bad request; a precondition
\* that does not hold gives PreconditionFailed and nothing is written.
C23_TruthTableOtherwiseBad ==
  h_result # "none" =>
    /\ IfMatchCase => h_result = Outcome(IfMatchHolds)
    /\ BothNegativeCase => h_result = Outcome(IfNoneMatchHolds /\ IfModifiedSinceHolds)
    /\ (~IfMatchCase /\ ~BothNegativeCase) => h_result = "BadRequest"
    /\ h_result # "Ok" => ~h_written

\* C23, with the headers that are evaluated on their own: one header alone is
\* evaluated by itself, no header at all holds, and the bad request is for
\* the remaining combinations (if-match or if-unmodified-since together with
\* if-none-match or if-modified-since, if-unmodified-since without if-match
\* together with another header).
C23_TruthTable ==
  h_result # "none" =>
    /\ IfMatchCase => h_result = Outcome(IfMatchHolds)
    /\ BothNegativeCase => h_result = Outcome(IfNoneMatchHolds /\ IfModifiedSinceHolds)
    /\ HeadersSet = {"if_unmodified_since"} => h_result = Outcome(IfUnmodifiedSinceHolds)
    /\ HeadersSet = {"if_none_match"} => h_result = Outcome(IfNoneMatchHolds)
    /\ HeadersSet = {"if_modified_since"} => h_result = Outcome(IfModifiedSinceHolds)
    /\ HeadersSet = {} => h_result = "Ok"
    /\ (~IfMatchCase /\ ~BothNegativeCase /\ Cardinality(HeadersSet) >= 2) =>
         h_result = "BadRequest"
    /\ h_result # "Ok" => ~h_written

C23_Witness ==
  /\ h_result = "Ok"
  /\ h_written
  /\ h_headers.if_match.set /\ h_headers.if_unmodified_since.set
  /\ ~IfUnmodifiedSinceHolds

(***************************************************************************)
(* Properties of UploadPartCopy                                             *)
(***************************************************************************)
SourceSize == SumSizes(u_source)
RangeBegin == u_range.start
RangeEnd == u_range.start + u_range.length
\* the bytes source[a:b]
RangeBytes == [j \in 1..u_range.length |-> u_range.start + j - 1]
\* first byte and byte interval of the i-th source block
BeginOf(i) == SumSizes(SubSeq(u_source, 1, i - 1))
EndOf(i) == BeginOf(i) + u_source[i]
Intersecting == {i \in 1..Len(u_source) : BeginOf(i) < RangeEnd /\ EndOf(i) > RangeBegin}
Max2(a, b) == IF a > b THEN a ELSE b
Min2(a, b) == IF a < b THEN a ELSE b
\* the bytes of block i that lie in the range
Trimmed(i) ==
  [j \in 1..(Min2(EndOf(i), RangeEnd) - Max2(BeginOf(i), RangeBegin)) |->
     Max2(BeginOf(i), RangeBegin) + j - 1]

RECURSIVE ConcatData(_)
ConcatData(items) == IF items = <<>> THEN <<>> ELSE Head(items).data \o ConcatData(Tail(items))

RECURSIVE IncreasingFrom(_, _)
IncreasingFrom(is, lo) ==
  IF is = <<>> THEN TRUE ELSE Head(is) > lo /\ IncreasingFrom(Tail(is), Head(is))

\* the index of the source block with that hash
IndexOf(hash) == CHOOSE i \in 1..Len(u_source) : SourceBlocks(u_source)[i].hash = hash

\* the bytes recorded in the destination Version, by increasing offset
RECURSIVE VersionBytes(_, _)
VersionBytes(rows, offset) ==
  IF \E r \in rows : r.offset = offset
  THEN LET r == CHOOSE x \in rows : x.offset = offset
       IN r.hash.blake2 \o VersionBytes(rows \ {r}, offset + r.size)
  ELSE <<>>

\* C24: UploadPartCopy of the source range [a, b) selects exactly the source
\* blocks whose bytes intersect [a, b), each trimmed to the intersection and in
\* source order; when the request succeeds the bytes recorded are source[a:b],
\* the offsets in the destination Version are consecutive from 0, the recorded
\* part size is b - a, and the assertion on current_offset never fails.
C24_RangeCopied ==
  /\ u_pc # "panic"
  /\ u_pc # "select" =>
       /\ Len(u_to_copy) = Cardinality(Intersecting)
       /\ {IndexOf(u_to_copy[k].hash) : k \in 1..Len(u_to_copy)} = Intersecting
       /\ IncreasingFrom([k \in 1..Len(u_to_copy) |-> IndexOf(u_to_copy[k].hash)], 0)
       /\ \A k \in 1..Len(u_to_copy) :
            SourceStream(u_to_copy)[k].data = Trimmed(IndexOf(u_to_copy[k].hash))
  /\ u_pc = "done" =>
       /\ VersionBytes(u_version, 0) = RangeBytes
       /\ SumSizes([k \in 1..Len(u_emitted) |-> Len(u_emitted[k].data)]) = u_range.length
       /\ \A r \in u_version :
            r.offset = 0 \/ \E q \in u_version : q.offset + q.size = r.offset
       /\ \A r \in u_version : Len(r.hash.blake2) = r.size
       /\ u_size = RangeEnd - RangeBegin

\* a successful copy of a range that cuts its first and its last block and
\* holds a whole block in between
C24_Witness ==
  /\ u_pc = "done"
  /\ Len(u_to_copy) >= 3
  /\ u_to_copy[1].range_to_copy.some
  /\ u_to_copy[Len(u_to_copy)].range_to_copy.some
  /\ ~u_to_copy[2].range_to_copy.some
  /\ Len(u_to_copy) < Len(u_source) + 1
  /\ u_size = u_range.length

\* source blocks some byte of the buffer comes from
BlocksIn(data) ==
  {i \in 1..Len(u_source) : \E j \in 1..Len(data) : data[j] >= BeginOf(i) /\ data[j] < EndOf(i)}
IsWholeBlock(data) == \E i \in 1..Len(u_source) : data = BlockData(BeginOf(i), u_source[i])
IsConcatenation(data) == Cardinality(BlocksIn(data)) > 1
IsTrimmed(data) == Cardinality(BlocksIn(data)) = 1 /\ ~IsWholeBlock(data)
\* buffers the copy loop has gone through
Handled ==
  IF u_pc = "done" THEN 1..Len(u_emitted)
  ELSE IF u_emitted = <<>> THEN {} ELSE 1..(Len(u_emitted) - 1)

\* C25: a buffer the Defragmenter returns with Some(hash) is exactly one whole
\* source block with that hash and is not uploaded again; a buffer that is a
\* trimmed block or a concatenation of fragments carries None and is hashed
\* and uploaded as a new block; a concatenation never exceeds block_size; the
\* stream ends with one empty buffer.
C25_DefragmenterHashes ==
  /\ \A k \in 1..Len(u_emitted) :
       LET e == u_emitted[k] IN
       /\ e.hash.some =>
            /\ IsWholeBlock(e.data)
            /\ e.hash.h = blake2sum(e.data)
            /\ e.hash.h \notin u_uploaded
       /\ (IsTrimmed(e.data) \/ IsConcatenation(e.data)) =>
            /\ ~e.hash.some
            /\ k \in Handled /\ u_pc # "error" => blake2sum(e.data) \in u_uploaded
            /\ k \in Handled => \E r \in u_version : r.hash = blake2sum(e.data)
       /\ IsConcatenation(e.data) => Len(e.data) <= u_block_size
       /\ e.data = <<>> => k = Len(u_emitted)
  /\ u_pc = "done" => u_emitted[Len(u_emitted)].data = <<>>

\* a finished copy in which one buffer was an existing block and another one a
\* concatenation of a trimmed block with a whole block
C25_Witness ==
  /\ u_pc = "done"
  /\ \E k \in 1..Len(u_emitted) : u_emitted[k].hash.some
  /\ \E k \in 1..Len(u_emitted) :
       /\ IsConcatenation(u_emitted[k].data)
       /\ \E i \in BlocksIn(u_emitted[k].data) :
            BlockData(BeginOf(i), u_source[i]) = Trimmed(i)
       /\ \E i \in BlocksIn(u_emitted[k].data) :
            BlockData(BeginOf(i), u_source[i]) # Trimmed(i)

(***************************************************************************)
(* Properties of UploadPart                                                 *)
(***************************************************************************)
\* the deleted Version rows scheduled for the part's version uuid
Scheduled == {k \in 1..Len(t_spawned) : t_spawned[k] = t_uuid}
NonSuccess == t_exit \in {"error", "cancelled"}

\* C26: on any non-success exit path of UploadPart (error return or
\* cancellation of the request future) a deleted Version row for the part's
\* version uuid is scheduled for insertion exactly once; on the success path
\* none is scheduled.
C26_TombstoneOnAnyFailure ==
  /\ NonSuccess => Len(t_spawned) = 1 /\ Cardinality(Scheduled) = 1
  /\ t_exit = "ok" => t_spawned = <<>>

\* C26 (amended): the same, for the exit paths that follow the creation of the
\* part's version uuid; an exit before that point schedules nothing.
C26_TombstoneOncePartExists ==
  /\ NonSuccess /\ t_uuid # 0 => Len(t_spawned) = 1 /\ Cardinality(Scheduled) = 1
  /\ NonSuccess /\ t_uuid = 0 => t_spawned = <<>>
  /\ t_exit = "ok" => t_spawned = <<>>
  /\ t_exit = "none" => t_spawned = <<>>
  /\ \A v \in t_version : v.deleted => v.uuid = t_uuid /\ NonSuccess

\* the request was dropped after the Version row of the part was inserted,
\* and the spawned task has inserted the deleted row
C26_Witness ==
  /\ t_exit = "cancelled"
  /\ [uuid |-> t_uuid, deleted |-> FALSE] \in t_version
  /\ [uuid |-> t_uuid, deleted |-> TRUE] \in t_version
  /\ Len(t_spawned) = 1

(***************************************************************************)
(* Properties of CompleteMultipartUpload                                    *)
(***************************************************************************)
Started == x_pc \notin {"idle", "off"}
\* the stored part of a number with the latest timestamp, if any
LatestPart(n) ==
  {p \in x_mpu : p.part_number = n /\
                 \A q \in x_mpu : q.part_number = n => q.timestamp <= p.timestamp}
ListedOk(i) ==
  \E p \in LatestPart(x_list[i].part_number) :
    p.etag.set /\ p.etag.v = x_list[i].etag /\ p.size.set
NotIncreasing ==
  \E i \in 1..(Len(x_list) - 1) : x_list[i].part_number >= x_list[i + 1].part_number
SomeListedBad == \E i \in 1..Len(x_list) : ~ListedOk(i)
Rejected(error) == x_pc = "end" /\ x_result = error /\ x_rows = <<>>

\* C27: CompleteMultipartUpload rejects the request, writing no Version,
\* BlockRef or Object row, when the part list is empty (EntityTooSmall), when
\* the part numbers are not strictly increasing (InvalidPartOrder), or when
\* some listed (part_number, etag) does not match the stored part with the
\* latest timestamp for that number or that part has no size (InvalidPart).
C27_RejectedWithError ==
  Started /\ x_exists =>
    /\ x_list = <<>> => Rejected("EntityTooSmall")
    /\ x_list # <<>> /\ NotIncreasing => Rejected("InvalidPartOrder")
    /\ x_list # <<>> /\ ~NotIncreasing /\ SomeListedBad => Rejected("InvalidPart")

\* C27 (amended): the same for an upload that has at least one stored part; an
\* upload without any stored part is rejected as a bad request, whatever the
\* list; the three tests are made in this order.
C27_RejectedOnceUploaded ==
  Started /\ x_exists =>
    /\ x_mpu = {} => Rejected("BadRequest")
    /\ x_mpu # {} /\ x_list = <<>> => Rejected("EntityTooSmall")
    /\ x_mpu # {} /\ x_list # <<>> /\ NotIncreasing => Rejected("InvalidPartOrder")
    /\ x_mpu # {} /\ x_list # <<>> /\ ~NotIncreasing /\ SomeListedBad => Rejected("InvalidPart")
    /\ x_mpu # {} /\ x_list # <<>> /\ ~NotIncreasing /\ ~SomeListedBad /\ x_pc = "end" =>
         x_result \notin {"BadRequest", "EntityTooSmall", "InvalidPartOrder"}

\* a part uploaded twice with different etags, listed with its first etag, is
\* rejected as InvalidPart
C27_Witness ==
  /\ Rejected("InvalidPart")
  /\ x_fetched = <<>>
  /\ \E i \in 1..Len(x_list) :
       \E p \in x_mpu : /\ p.part_number = x_list[i].part_number
                        /\ p.etag = SomeEtag(x_list[i].etag)
                        /\ p \notin LatestPart(p.part_number)

\* C28: the final Version row is inserted first, then the BlockRef rows, and
\* only then the object version is written as Complete; the Complete row is
\* never written if an earlier insert failed or a listed part's version is
\* deleted.
C28_CompleteWrittenLast ==
  /\ \A i \in 1..Len(x_rows) :
       /\ x_rows[i] = "BlockRef" => i > 1 /\ x_rows[1] = "Version"
       /\ x_rows[i] = "Object Complete" =>
            /\ x_rows = <<"Version", "BlockRef", "Object Complete">>
            /\ x_result = "Ok"
            /\ \A k \in 1..Len(x_fetched) : x_fetched[k] = "live"
            /\ Len(x_fetched) = Len(x_list)
  /\ x_result \in {"Error", "InvalidPart", "InternalError", "QuotaError"} =>
       \A i \in 1..Len(x_rows) : x_rows[i] # "Object Complete"
  /\ x_result = "Ok" => x_rows = <<"Version", "BlockRef", "Object Complete">>

\* a completed upload of two parts, one of which was uploaded twice
C28_Witness ==
  /\ x_result = "Ok"
  /\ x_rows = <<"Version", "BlockRef", "Object Complete">>
  /\ Len(x_list) = 2
  /\ Cardinality(x_mpu) = 3

(***************************************************************************)
(* Properties of AbortMultipartUpload                                       *)
(***************************************************************************)
\* the version of the upload in an Object row, if any
UploadVersionIn(o) ==
  IF o.some THEN {o.versions[i] : i \in {k \in 1..Len(o.versions) : o.versions[k].uuid = a_upload}}
  ELSE {}
WasUploadingMultipart == \E v \in UploadVersionIn(a_before) : IsUploadingMultipart(v)
RowsFor(table) ==
  {k \in 1..Len(a_tx) : a_tx[k] = [table |-> table, uuid |-> a_upload, deleted |-> TRUE]}

\* C29: AbortMultipartUpload writes the upload's object version as Aborted, and
\* when that update is applied to a stored Object whose version was
\* Uploading{multipart: true}, the updated hook enqueues, in the same
\* transaction, one deleted Version row and one deleted MultipartUpload row
\* for the upload id.
C29_AbortEnqueuesDeletions ==
  a_result = "Ok" =>
    /\ \A v \in UploadVersionIn(a_object) : v.state = Aborted
    /\ WasUploadingMultipart =>
         /\ UploadVersionIn(a_object) # {}
         /\ Cardinality(RowsFor("version")) = 1
         /\ Cardinality(RowsFor("mpu")) = 1
         /\ Len(SelectSeq(a_vq, LAMBDA r : r.uuid = a_upload)) = 1
         /\ Len(SelectSeq(a_mq, LAMBDA r : r.uuid = a_upload)) = 1

\* the abort applied on a node that stores the upload as Uploading{multipart}
\* next to another version of the object
C29_Witness ==
  /\ a_result = "Ok"
  /\ WasUploadingMultipart
  /\ Len(a_before.versions) = 2
  /\ Len(a_tx) >= 2

(***************************************************************************)
(* Properties of repair_versions                                            *)
(***************************************************************************)
Rows == {u \in RowUuids : n_first[u] # "none"}
\* the Object read for the row has no version of that uuid, or an Aborted one
Orphan(o, uuid) ==
  \/ ~o.some
  \/ \A i \in 1..Len(o.versions) : o.versions[i].uuid # uuid
  \/ \E i \in 1..Len(o.versions) :
       o.versions[i].uuid = uuid /\ o.versions[i].state.tag = "Aborted"
\* calls of work() on the row, and those that returned Ok
Calls(u) == {k \in 1..Len(n_log) : n_log[k].uuid = u}
Visits(u) == {k \in Calls(u) : n_log[k].ok}

\* C30: repair_versions marks a Version row deleted iff the row is not already
\* deleted and its Object is missing, has no version with the same uuid, or
\* has that version in state Aborted; every other row is left unchanged; each
\* row of the local Version table is visited once (one call of work() that
\* returns Ok) and then the pass finishes.
C30_RepairVersionsPass ==
  /\ \A k \in 1..Len(n_log) :
       (n_log[k].ok /\ ~n_log[k].deleted /\ Orphan(n_log[k].object, n_log[k].uuid))
          => n_table[n_log[k].uuid] = "deleted"
  /\ \A u \in RowUuids :
       n_table[u] # n_first[u] =>
          /\ n_first[u] = "live" /\ n_table[u] = "deleted"
          /\ \E k \in Calls(u) : ~n_log[k].deleted /\ Orphan(n_log[k].object, u)
  /\ \A u \in RowUuids : Cardinality(Visits(u)) <= 1
  /\ \A u \in RowUuids : Visits(u) # {} <=> (u \in Rows /\ u <= n_pos)
  /\ n_counter = Cardinality({u \in Rows : u <= n_pos})
  /\ n_state = "Done" => \A u \in Rows : Cardinality(Visits(u)) = 1

\* a finished pass over three rows that marked one row whose version is
\* Aborted, left a row whose version is not, and left a row already deleted
C30_Witness ==
  /\ n_state = "Done"
  /\ n_counter >= 3
  /\ \E u \in Rows :
       /\ n_first[u] = "live" /\ n_table[u] = "deleted"
       /\ \E k \in Visits(u) : n_log[k].object.some /\
            \E i \in 1..Len(n_log[k].object.versions) :
               n_log[k].object.versions[i] = ObjectVersion(u, TimestampOf(u), Aborted)
  /\ \E u \in Rows : n_first[u] = "live" /\ n_table[u] = "live"
  /\ \E u \in Rows : n_first[u] = "deleted"

(***************************************************************************)
(* Properties of repair_block_refs                                          *)
(***************************************************************************)
RefRows == {k \in RefKeys : f_first[k].state # "none"}
RefCalls(k) == {i \in 1..Len(f_log) : f_log[i].key = k}
RefVisits(k) == {i \in RefCalls(k) : f_log[i].ok}
VersionGone(version) == version \in {"none", "deleted"}

\* C31: repair_block_refs marks a BlockRef row deleted iff the row is not
\* already deleted and its Version row is missing or marked deleted; a
\* BlockRef whose Version exists and is not deleted is never tombstoned by the
\* pass; each row of the local BlockRef table is visited once (one call of
\* work() that returns Ok) and then the pass finishes.
C31_RepairBlockRefsPass ==
  /\ \A i \in 1..Len(f_log) :
       (f_log[i].ok /\ ~f_log[i].deleted /\ VersionGone(f_log[i].version))
          => f_table[f_log[i].key].state = "deleted"
  /\ \A k \in RefKeys :
       f_table[k] # f_first[k] =>
          /\ f_first[k].state = "live" /\ f_table[k].state = "deleted"
          /\ f_table[k].version = f_first[k].version
          /\ VersionGone(f_version[f_first[k].version])
          /\ RefCalls(k) # {}
  /\ \A k \in RefKeys :
       f_first[k].state = "live" /\ f_version[f_first[k].version] = "live"
          => f_table[k].state = "live"
  /\ \A k \in RefKeys : Cardinality(RefVisits(k)) <= 1
  /\ \A k \in RefKeys : RefVisits(k) # {} <=> (k \in RefRows /\ k <= f_pos)
  /\ f_counter = Cardinality({k \in RefRows : k <= f_pos})
  /\ f_state = "Done" => \A k \in RefRows : Cardinality(RefVisits(k)) = 1

\* a finished pass that tombstoned a row whose Version is missing, kept a row
\* whose Version is live and met a row already deleted
C31_Witness ==
  /\ f_state = "Done"
  /\ f_counter >= 3
  /\ \E k \in RefRows : /\ f_first[k].state = "live" /\ f_table[k].state = "deleted"
                        /\ f_version[f_first[k].version] = "none"
  /\ \E k \in RefRows : f_first[k].state = "live" /\ f_table[k].state = "live"
  /\ \E k \in RefRows : f_first[k].state = "deleted"

(***************************************************************************)
(* Properties of the key table                                              *)
(***************************************************************************)
\* the Key rows of the key id that exist somewhere: stored or on their way
KeyRowsSeen == ({k_table[n] : n \in KeyNodes} \cup {m.row : m \in k_net}) \ {NoKey}

KeyImportAccepted(r) == k_req[r].pc = "insert" /\ k_req'[r].pc = "done"

\* what holds of Key::merge on the rows seen: it is associative and
\* idempotent, Deleted absorbs, and it commutes on all but secret_key
C32_MergeLawsButSecret ==
  \A a, b, c \in KeyRowsSeen :
    /\ KeyMerge(KeyMerge(a, b), c) = KeyMerge(a, KeyMerge(b, c))
    /\ KeyMerge(a, a) = a
    /\ KeyMerge(KeyDeleted, a) = KeyDeleted /\ KeyMerge(a, KeyDeleted) = KeyDeleted
    /\ KeyMerge(a, b).state = KeyMerge(b, a).state
    /\ KeyMerge(a, b).params.name = KeyMerge(b, a).params.name
    /\ KeyMerge(a, b).params.allow_create_bucket = KeyMerge(b, a).params.allow_create_bucket

\* C32: Key::merge is commutative on the rows of one key id, and once every
\* node has received every row inserted for the key id, all the nodes store
\* the same row, secret key included.
C32_KeyMergeConverges ==
  /\ \A a, b \in KeyRowsSeen : KeyMerge(a, b) = KeyMerge(b, a)
  /\ k_net = {} => \A n1, n2 \in KeyNodes : k_table[n1] = k_table[n2]

\* what holds of handle_import_key: a request that finds an entry is answered
\* KeyAlreadyExists and inserts nothing, and no node ever changes the secret
\* it stores
C34_RejectedWhenFound ==
  [][/\ \A r \in KeyRequests :
          k_req'[r].result = "KeyAlreadyExists" /\ k_req[r].result = "none"
             => k_table' = k_table /\ k_net' = k_net
     /\ \A n \in KeyNodes :
          k_table[n].state = "present" /\ k_table'[n].state = "present"
             => k_table'[n].params.secret_key = k_table[n].params.secret_key]_vars

\* C34: an import request is accepted, and its row inserted, only if the key
\* id has no entry in the key table of the node at that time, whatever the
\* interleaving of the import requests.
C34_DuplicateImportRejected ==
  [][\A r \in KeyRequests :
       KeyImportAccepted(r) => k_table[k_req[r].node] = NoKey]_vars

(***************************************************************************)
(* Properties of Key::import                                                *)
(***************************************************************************)
\* ^GK[0-9a-f]{24}$
MatchesKeyId(s) ==
  /\ Len(s) = 26
  /\ s[1] = "G" /\ s[2] = "K"
  /\ \A j \in 3..26 : s[j] \in LowerHexChars

\* ^GK[0-9a-fA-F]{24}$
MatchesKeyIdAnyCase(s) ==
  /\ Len(s) = 26
  /\ s[1] = "G" /\ s[2] = "K"
  /\ \A j \in 3..26 : s[j] \in LowerHexChars \cup UpperHexChars

\* 64 hex characters
MatchesSecretKey(s) ==
  /\ Len(s) = 64
  /\ \A j \in 1..64 : s[j] \in LowerHexChars \cup UpperHexChars

\* what holds of Key::import: a key id of the stated shape with a secret of 64
\* hex characters is accepted and kept as given, and whatever is accepted has
\* that shape up to the case of the hex digits of the key id
C33_ImportAcceptsAnyCase ==
  i_pc = "done" =>
    /\ MatchesKeyId(i_key_id) /\ MatchesSecretKey(i_secret_key)
         => i_result = ImportOk(i_key_id, i_secret_key)
    /\ i_result.kind = "Ok"
         => MatchesKeyIdAnyCase(i_key_id) /\ MatchesSecretKey(i_secret_key)

\* C33: Key::import returns a Key exactly when the key id matches
\* ^GK[0-9a-f]{24}$ and the secret is 64 hex characters, and returns an error
\* for every other key id or secret.
C33_ImportAcceptsExactly ==
  i_pc = "done" =>
    IF MatchesKeyId(i_key_id) /\ MatchesSecretKey(i_secret_key)
    THEN i_result = ImportOk(i_key_id, i_secret_key)
    ELSE i_result.kind = "Err"

(***************************************************************************)
(* Properties of ObjectTable::updated                                       *)
(***************************************************************************)
\* the version of the new row with the uuid and timestamp of v, if any
SameVersionIn(new, v) ==
  {j \in 1..Len(new.versions) :
     new.versions[j].uuid = v.uuid /\ new.versions[j].timestamp = v.timestamp}

\* v is absent from the new row, or went from non-Aborted to Aborted
MustDelete(new, v) ==
  \/ SameVersionIn(new, v) = {}
  \/ /\ v.state # Aborted
     /\ \A j \in SameVersionIn(new, v) : new.versions[j].state = Aborted

VersionRowsOf(rows, uuid) ==
  {j \in 1..Len(rows) : rows[j].table = "version" /\ rows[j].uuid = uuid}

\* C35: after an update of an Object row, the rows enqueued for the Version
\* table are one deleted Version per version of the old row that is absent
\* from the new row or went from non-Aborted to Aborted, none for any other
\* version, and none at all when there was no old row.
C35_VersionDeletionsEnqueued ==
  g_pc = "done" =>
    /\ \A j \in 1..Len(g_rows) : g_rows[j].deleted
    /\ ~g_old.some => g_rows = <<>>
    /\ \A j \in 1..Len(g_rows) :
         g_rows[j].table = "version" =>
           \E i \in 1..Len(g_old.versions) : g_old.versions[i].uuid = g_rows[j].uuid
    /\ \A i \in 1..Len(g_old.versions) :
         LET v == g_old.versions[i]
         IN Cardinality(VersionRowsOf(g_rows, v.uuid)) =
              IF MustDelete(g_new, v) THEN 1 ELSE 0

\* an update after which one version is gone, one has become Aborted
C35_Witness ==
  /\ g_pc = "done"
  /\ g_old.some
  /\ \E i, j \in 1..Len(g_old.versions) :
       /\ SameVersionIn(g_new, g_old.versions[i]) = {}
       /\ SameVersionIn(g_new, g_old.versions[j]) # {}
       /\ MustDelete(g_new, g_old.versions[j])
       /\ VersionRowsOf(g_rows, g_old.versions[i].uuid) # {}
       /\ VersionRowsOf(g_rows, g_old.versions[j].uuid) # {}

(***************************************************************************)
(* Properties of the entries resync_iter moves in the queue                 *)
(***************************************************************************)
\* the step is the end of an iteration whose resync_block failed
RetryFailedStep == e_pc = "resync_block" /\ e_fails' = e_fails + 1

\* the step is an iteration skipped because next_try is in the future
RetrySkippedStep ==
  /\ e_pc = "idle" /\ e_pc' = "idle"
  /\ e_now' = e_now /\ e_adds' = e_adds

\* C36: after an iteration that failed or was skipped, the entry it took is
\* no longer in the queue and the hash is in the queue at a time strictly
\* later than the time of the iteration, so the entry removed is not the one
\* the iteration has just inserted.
C36_RequeuedAfterNow ==
  [][/\ RetryFailedStep =>
          /\ e_entry \notin e_queue'
          /\ \E t \in e_queue' \ e_queue : t > e_iter_now
     /\ RetrySkippedStep =>
          /\ SetMin(e_queue) \notin e_queue'
          /\ \E t \in e_queue' : t > e_now /\ t > SetMin(e_queue)]_vars

\* a failed iteration has moved the entry that was due exactly at its time
C36_Witness ==
  /\ e_pc = "idle"
  /\ e_last.some
  /\ e_entry = e_last.iter_now
  /\ e_entry \notin e_queue
  /\ e_last.requeued \in e_queue
  /\ e_last.requeued > e_last.iter_now

\* what holds of a put_to_resync: the hash leaves the queue with a request
\* pending only if the request had the key of the entry in progress
C37_KeptUnlessSameKey == e_req # {} /\ e_queue = {} => e_req = {e_entry}

\* C37: a put_to_resync for the hash is never lost: as long as resync_block
\* has not started since the request, the hash has an entry in the queue,
\* also when the request came during an iteration for the hash with the key
\* of the entry in progress.
C37_RequestNeverLost == e_req # {} => e_queue # {}

\* the form of the block that is_block_compressed selects
SelectedForm(dir) == IF is_block_compressed(dir) = "true" THEN dir.zst ELSE dir.plain

\* C38: the file that read_block_internal renames to .corrupted once it holds
\* the mutation lock is a file whose contents do not hash to the hash, whatever
\* was written to the data directory since the read that failed the check.
C38_OnlyBadFileRenamed ==
  [][d_read = "corrupt" /\ d_read' = "idle" /\ BlockExists(d_dir)
       => SelectedForm(d_dir) = "bad"]_vars

\* the step is the deletion step of resync_block: delete_if_unneeded under
\* the mutation lock, then clear_deleted_block_rc
DeletionStep == b_pc = "delete" /\ b_pc' = "idle"

C40_RefusedWhenRead ==
  /\ z_last.read \in {"Complete", "Aborted", "absent"} =>
       z_last.result = "NoSuchUpload" /\ z_last.writes = <<>>
  /\ z_req.op # "none" => z_req.read = "Uploading"

\* C40: once the version of the upload has been Complete or Aborted in the
\* Object row, no merge makes it an Uploading multipart version again, and a
\* request on the upload id whose get_upload reads the version as Complete or
\* Aborted is answered NoSuchUpload and writes to no table.
C40_FinishedUploadStaysFinished ==
  /\ z_done => \A v \in VersionsOfUpload(z_object, z_upload) : ~IsUploadingMultipart(v)
  /\ z_last.read \in {"Complete", "Aborted"} =>
       z_last.result = "NoSuchUpload" /\ z_last.writes = <<>>
====
